---- MODULE Spec2Model ----
(***************************************************************************)
(* Monte Carlo Tree Search engine of src/src/index.ts (classes Node and    *)
(* MCTS), run against the example games of src/src/games.ts.               *)
(*                                                                         *)
(* Encodings.                                                              *)
(*  - A player id is a string.  The numeric players 0 and 1 of the cell    *)
(*    and dice games are written "num0" and "num1"; the tic-tac-toe        *)
(*    players are "X" and "O".  null (no winner, empty cell) is NoPlayer.  *)
(*    String(player), the key of a tally, is the operator String.          *)
(*  - A move is an integer.  A tic-tac-toe move [y, x] is 3*y + x.  The    *)
(*    null move of the root is NullMove.                                   *)
(*  - A Node object is named by the path of child positions that leads to  *)
(*    it: the root is <<0>>, its i-th child <<0, i>>.  null is NullNode.   *)
(*  - `tree` holds the fields of all Node objects, one function per field. *)
(*    `children === null` is `n \notin DOMAIN tree.children`.              *)
(*  - `objects` is the heap of Game objects: the one the caller passed to  *)
(*    the constructor (this.game) and the clone of the running simulation. *)
(*  - JavaScript arrays are 0-based, sequences 1-based: array[i] is        *)
(*    seq[i + 1].                                                          *)
(***************************************************************************)
EXTENDS Integers, Sequences, FiniteSets, TLC

(* Bounds of the model. *)
MaxRounds == 3      \* largest configured round count
MaxBatch == 2       \* largest count passed to runSimulations
MaxSims == 4        \* largest number of simulations run on one engine

NoPlayer == "null"
NullMove == 0 - 1
NullNode == << >>
Root == <<0>>

ThisGame == "game"
CloneObj == "clone"
NoObj == "none"

Range(s) == {s[i] : i \in DOMAIN s}
Last(s) == s[Len(s)]
Max(a, b) == IF a > b THEN a ELSE b

RECURSIVE SumSeq(_)
SumSeq(s) == IF s = << >> THEN 0 ELSE Head(s) + SumSeq(Tail(s))

(***************************************************************************)
(* Games (src/src/games.ts).  One record type serves the four games; a     *)
(* game uses the fields its class declares.                                *)
(***************************************************************************)
NoGame ==
    [kind |-> "none", board |-> << >>, currentPlayer |-> NoPlayer,
     round |-> 0, score |-> 0, diceToRoll |-> 0]

SingleCellGame ==
    [kind |-> "single", board |-> <<NoPlayer>>, currentPlayer |-> "num0",
     round |-> 0, score |-> 0, diceToRoll |-> 0]

TwoCellGame ==
    [kind |-> "two", board |-> <<NoPlayer, NoPlayer>>, currentPlayer |-> "num0",
     round |-> 0, score |-> 0, diceToRoll |-> 0]

SummingDiceGame ==
    [kind |-> "dice", board |-> << >>, currentPlayer |-> "num1",
     round |-> 0, score |-> 0, diceToRoll |-> 0]

TicTacToeGame(board, player) ==
    [kind |-> "ttt", board |-> board, currentPlayer |-> player,
     round |-> 0, score |-> 0, diceToRoll |-> 0]

(* Positions the caller hands to the constructor: boards set up as in      *)
(* src/src/test.ts, or reached by performMove on a new game.               *)
TwoLeftBoard ==
    <<"X", "X", NoPlayer,
      "O", "O", "X",
      "O", "X", NoPlayer>>

ThreeLeftBoard ==
    <<"O", "X", "O",
      "X", "X", "O",
      NoPlayer, NoPlayer, NoPlayer>>

(* String(player): the key under which a player's wins are tallied. *)
String(p) ==
    CASE p = "num0" -> "0"
      [] p = "num1" -> "1"
      [] OTHER -> p

RECURSIVE EmptyCells(_, _)
(* The indices i..Len(board)-1 (0-based) of the empty cells, ascending. *)
EmptyCells(board, i) ==
    IF i >= Len(board) THEN << >>
    ELSE IF board[i + 1] = NoPlayer THEN <<i>> \o EmptyCells(board, i + 1)
    ELSE EmptyCells(board, i + 1)

(* winningScores 7, 56, 448, 73, 146, 292, 273, 84 as sets of cells: the   *)
(* cell [y, x] has boardScore 2^(3y+x), and (score & sum) === score says   *)
(* that the player holds every cell of the line.                           *)
WinningLines ==
    <<{0, 1, 2}, {3, 4, 5}, {6, 7, 8}, {0, 3, 6}, {1, 4, 7}, {2, 5, 8},
      {0, 4, 8}, {2, 4, 6}>>

TicTacToeWinner(board) ==
    LET holds(p) == \E k \in DOMAIN WinningLines :
                        \A c \in WinningLines[k] : board[c + 1] = p
    IN  IF holds("X") THEN "X" ELSE IF holds("O") THEN "O" ELSE NoPlayer

GetWinner(g) ==
    CASE g.kind = "single" -> g.board[1]
      [] g.kind = "two" -> g.board[2]
      [] g.kind = "ttt" -> TicTacToeWinner(g.board)
      [] g.kind = "dice" -> IF g.score > 5 THEN "num1" ELSE NoPlayer
      [] OTHER -> NoPlayer

TwoDice ==
    <<2, 3, 3, 4, 4, 4, 5, 5, 5, 5, 6, 6, 6, 6, 6, 7, 7, 7, 7, 7, 7,
      8, 8, 8, 8, 8, 9, 9, 9, 9, 10, 10, 10, 11, 11, 12>>

(* getPossibleMoves: `random` tells a RandomSelection from a plain array. *)
GetPossibleMoves(g) ==
    CASE g.kind = "single" ->
            [random |-> FALSE,
             array |-> IF g.board[1] = NoPlayer THEN <<0>> ELSE << >>]
      [] g.kind = "two" ->
            [random |-> FALSE, array |-> EmptyCells(g.board, 0)]
      [] g.kind = "ttt" ->
            [random |-> FALSE,
             array |-> IF GetWinner(g) # NoPlayer THEN << >>
                       ELSE EmptyCells(g.board, 0)]
      [] g.kind = "dice" ->
            IF g.round = 0 THEN [random |-> FALSE, array |-> <<0, 1, 2>>]
            ELSE IF g.round = 1 THEN
                [random |-> TRUE,
                 array |-> IF g.diceToRoll = 0 THEN << >>
                           ELSE IF g.diceToRoll = 1 THEN <<1, 2, 3, 4, 5, 6>>
                           ELSE TwoDice]
            ELSE [random |-> FALSE, array |-> << >>]
      [] OTHER -> [random |-> FALSE, array |-> << >>]

OtherPlayer(p) ==
    CASE p = "num0" -> "num1"
      [] p = "num1" -> "num0"
      [] p = "X" -> "O"
      [] OTHER -> "X"

PerformMove(g, m) ==
    CASE g.kind = "single" -> [g EXCEPT !.board[m + 1] = "num0"]
      [] g.kind = "two" ->
            [g EXCEPT !.board[m + 1] = g.currentPlayer,
                      !.currentPlayer = OtherPlayer(g.currentPlayer)]
      [] g.kind = "ttt" ->
            [g EXCEPT !.board[m + 1] = g.currentPlayer,
                      !.currentPlayer = OtherPlayer(g.currentPlayer)]
      [] g.kind = "dice" ->
            [g EXCEPT !.diceToRoll = IF g.round = 0 THEN m ELSE @,
                      !.score = IF g.round = 1 THEN @ + m ELSE @,
                      !.round = @ + 1]
      [] OTHER -> g

GetCurrentPlayer(g) == g.currentPlayer

(* The dice game after its first move: a position whose moves are a        *)
(* RandomSelection (empty when no die is rolled).                          *)
DiceChosen(dice) == PerformMove(SummingDiceGame, dice)

InitialGames ==
    {SingleCellGame, TwoCellGame, DiceChosen(0), DiceChosen(1),
     TicTacToeGame(TwoLeftBoard, "O"), TicTacToeGame(ThreeLeftBoard, "X")}

(* A clone() that hands back the object it was called on. *)
CloneTargetSameObject(ref) == ref

(* clone(): the object the clone lives in.  Every clone() builds a new     *)
(* object; the clone of the previous simulation is garbage by then, so one *)
(* heap cell serves all clones.                                            *)
CloneTarget(ref) == CloneObj

(* A tic-tac-toe clone() that leaves currentPlayer at its initial 'X'. *)
CloneStateDefaultPlayer(g) ==
    [kind |-> g.kind, board |-> [i \in DOMAIN g.board |-> g.board[i]],
     currentPlayer |-> IF g.kind = "ttt" THEN "X" ELSE g.currentPlayer,
     round |-> g.round, score |-> g.score, diceToRoll |-> g.diceToRoll]

(* clone(): the copied fields. *)
CloneState(g) ==
    [kind |-> g.kind, board |-> [i \in DOMAIN g.board |-> g.board[i]],
     currentPlayer |-> g.currentPlayer, round |-> g.round, score |-> g.score,
     diceToRoll |-> g.diceToRoll]


(***************************************************************************)
(* State.                                                                  *)
(***************************************************************************)
VARIABLES
    objects,      \* heap of Game objects: ThisGame and CloneObj -> game state
    rounds,       \* MCTS.rounds
    tree,         \* the fields of every Node created so far
    call,         \* selectMove or runSimulations, in progress or just returned,
                  \* and its loop counter
    pc,           \* "idle", "loop" (between simulations), "walk" (in one)
    simGame,      \* runSimulation's simGame: the object it refers to
    path,         \* runSimulation's path
    currentNode,  \* runSimulation's currentNode
    winner,       \* runSimulation's winner
    ret,          \* what the last public call returned or threw, until the next call
    simsRun,      \* history: simulations started since construction
    pre,          \* history: `tree` when the running simulation started
    rootGame,     \* history: the caller's game as it was when the root was
                  \* expanded (NoGame until then)
    ui            \* the tic-tac-toe page: its module variables, the locals and
                  \* the position of doAIMove (NoPage when a caller drives
                  \* the engine itself)

vars ==
    <<objects, rounds, tree, call, pc, simGame, path, currentNode, winner,
      ret, simsRun, pre, rootGame, ui>>

(***************************************************************************)
(* class Node (src/src/index.ts).                                          *)
(***************************************************************************)
EmptyTally == [k \in {} |-> 0]

(* new Node(parent, move, mcts) for each node of `ids`. *)
NewNodes(t, ids, parentOf, moveOf) ==
    [parent |-> [n \in ids |-> parentOf[n]] @@ t.parent,
     move |-> [n \in ids |-> moveOf[n]] @@ t.move,
     visits |-> [n \in ids |-> 0] @@ t.visits,
     wins |-> [n \in ids |-> EmptyTally] @@ t.wins,
     randomNode |-> [n \in ids |-> FALSE] @@ t.randomNode,
     queries |-> [n \in ids |-> 0] @@ t.queries,
     children |-> [n \in DOMAIN t.children \ ids |-> t.children[n]]]

EmptyTree ==
    [parent |-> << >>, move |-> << >>, visits |-> << >>, wins |-> << >>,
     randomNode |-> << >>, queries |-> << >>, children |-> << >>]

Nodes(t) == DOMAIN t.visits
IsExpanded(t, n) == n \in DOMAIN t.children

(* this.wins[key] ?? 0 *)
Tally(t, n, key) == IF key \in DOMAIN t.wins[n] THEN t.wins[n][key] ELSE 0

(* Object.values(this.wins).reduce((sum, w) => sum + w, 0) *)
RECURSIVE SumTally(_, _)
SumTally(w, keys) ==
    IF keys = {} THEN 0
    ELSE LET k == CHOOSE x \in keys : TRUE
         IN  w[k] + SumTally(w, keys \ {k})

TotalWins(t, n) == SumTally(t.wins[n], DOMAIN t.wins[n])

(* Number.POSITIVE_INFINITY, in the unit of GetUCB1. *)
Infinity == 1000000000

(* Math.sqrt((2 * Math.log(P)) / v) in millionths, rounded down, for a     *)
(* parent visit count P and a visit count v in 1..24: SqrtTwoLnOver[P][v]. *)
SqrtTwoLnOver ==
    << <<0, 0, 0, 0, 0, 0, 0, 0,
         0, 0, 0, 0, 0, 0, 0, 0,
         0, 0, 0, 0, 0, 0, 0, 0>>,
       <<1177410, 832554, 679777, 588705, 526553, 480675, 445019, 416277,
         392470, 372329, 355002, 339888, 326554, 314676, 304005, 294352,
         285563, 277518, 270116, 263276, 256931, 251024, 245506, 240337>>,
       <<1482303, 1048147, 855808, 741151, 662906, 605147, 560258, 524073,
         494101, 468745, 446931, 427904, 411117, 396162, 382729, 370575,
         359511, 349382, 340063, 331453, 323465, 316028, 309081, 302573>>,
       <<1665109, 1177410, 961351, 832554, 744659, 679777, 629352, 588705,
         555036, 526553, 502049, 480675, 461818, 445019, 429929, 416277,
         403848, 392470, 382002, 372329, 363356, 355002, 347199, 339888>>,
       <<1794122, 1268636, 1035837, 897061, 802356, 732447, 678114, 634318,
         598040, 567351, 540948, 517918, 497600, 479499, 463240, 448530,
         435138, 422878, 411599, 401178, 391509, 382508, 374100, 366223>>,
       <<1893018, 1338566, 1092934, 946509, 846583, 772821, 715493, 669283,
         631006, 598625, 570766, 546467, 525028, 505930, 488775, 473254,
         459124, 446188, 434288, 423291, 413090, 403592, 394721, 386410>>,
       <<1972769, 1394958, 1138979, 986384, 882249, 805379, 745636, 697479,
         657589, 623844, 594812, 569489, 547147, 527244, 509366, 493192,
         478466, 464986, 452584, 441124, 430493, 420595, 411350, 402689>>,
       <<2039333, 1442026, 1177410, 1019666, 912017, 832554, 770795, 721013,
         679777, 644894, 614882, 588705, 565609, 545034, 526553, 509833,
         494611, 480675, 467855, 456008, 445019, 434787, 425230, 416277>>,
       <<2096294, 1482303, 1210295, 1048147, 937491, 855808, 792324, 741151,
         698764, 662906, 632056, 605147, 581407, 560258, 541260, 524073,
         508426, 494101, 480922, 468745, 457448, 446931, 437107, 427904>>,
       <<2145966, 1517427, 1238974, 1072983, 959705, 876086, 811098, 758713,
         715322, 678614, 647033, 619487, 595183, 573533, 554086, 536491,
         520473, 505809, 492318, 479852, 468288, 457521, 447464, 438043>>,
       <<2189929, 1548513, 1264356, 1094964, 979366, 894034, 827715, 774256,
         729976, 692516, 660288, 632178, 607377, 585283, 565437, 547482,
         531135, 516171, 502404, 489683, 477881, 466894, 456631, 447017>>,
       <<2229307, 1576358, 1287091, 1114653, 996976, 910111, 842599, 788179,
         743102, 704969, 672161, 643545, 618298, 595807, 575604, 557326,
         540686, 525452, 511438, 498488, 486474, 475290, 464842, 455055>>,
       <<2264927, 1601545, 1307656, 1132463, 1012906, 924652, 856062, 800772,
         754975, 716233, 682901, 653828, 628177, 605327, 584801, 566231,
         549325, 533848, 519610, 506453, 494247, 482884, 472270, 462326>>,
       <<2297414, 1624517, 1326413, 1148707, 1027435, 937915, 868341, 812258,
         765804, 726506, 692696, 663206, 637188, 614009, 593189, 574353,
         557204, 541505, 527063, 513717, 501337, 489810, 479044, 468957>>,
       <<2327251, 1645615, 1343639, 1163625, 1040778, 950096, 879618, 822807,
         775750, 735941, 701692, 671819, 645463, 621984, 600893, 581812,
         564441, 548538, 533908, 520389, 507847, 496171, 485265, 475048>>,
       <<2354820, 1665109, 1359555, 1177410, 1053107, 961351, 890038, 832554,
         784940, 744659, 710004, 679777, 653109, 629352, 608011, 588705,
         571127, 555036, 540232, 526553, 513863, 502049, 491013, 480675>>,
       <<2380425, 1683215, 1374339, 1190212, 1064558, 971804, 899716, 841607,
         793475, 752756, 717725, 687169, 660211, 636195, 614623, 595106,
         577338, 561071, 546107, 532279, 519451, 507508, 496353, 485902>>,
       <<2404317, 1700109, 1388133, 1202158, 1075243, 981558, 908746, 850054,
         801439, 760312, 724929, 694066, 666837, 642580, 620792, 601079,
         583132, 566703, 551588, 537621, 524665, 512602, 501334, 490779>>,
       <<2426701, 1715936, 1401056, 1213350, 1085253, 990696, 917206, 857968,
         808900, 767390, 731677, 700528, 673045, 648563, 626571, 606675,
         588561, 571978, 556723, 542626, 529549, 517374, 506002, 495348>>,
       <<2447746, 1730818, 1413207, 1223873, 1094665, 999288, 925161, 865409,
         815915, 774045, 738023, 706603, 678882, 654187, 632005, 611936,
         593665, 576939, 561551, 547332, 534142, 521861, 510390, 499644>>,
       <<2467599, 1744855, 1424668, 1233799, 1103543, 1007393, 932664, 872427,
         822533, 780323, 744009, 712334, 684388, 659493, 637131, 616899,
         598480, 581618, 566106, 551771, 538474, 526093, 514529, 503696>>,
       <<2486379, 1758136, 1435512, 1243189, 1111942, 1015060, 939763, 879068,
         828793, 786262, 749671, 717756, 689597, 664512, 641980, 621594,
         603035, 586045, 570414, 555971, 542572, 530097, 518446, 507530>>,
       <<2504194, 1770732, 1445797, 1252097, 1119909, 1022332, 946496, 885366,
         834731, 791895, 755042, 722898, 694538, 669274, 646580, 626048,
         607356, 590244, 574501, 559954, 546459, 533895, 522160, 511166>>,
       <<2521132, 1782709, 1455576, 1260566, 1127484, 1029247, 952898, 891354,
         840377, 797252, 760149, 727788, 699236, 673800, 650953, 630283,
         611464, 594236, 578387, 563742, 550156, 537507, 525692, 514623>> >>

(* A score that counts wins only. *)
ScorePerVisitWinsOnly(t, n, player) ==
    (1000000 * Tally(t, n, String(player))) \div t.visits[n]

(* scorePerVisit of getUCB1, in millionths: (myWins + 0.5 * draws) / visits *)
ScorePerVisit(t, n, player) ==
    LET myWins == Tally(t, n, String(player))
        totalWins == TotalWins(t, n)
        draws == t.visits[n] - totalWins
    IN  (1000000 * (2 * myWins + draws)) \div (2 * t.visits[n])

(* A getUCB1 that scores a node without visits 0. *)
GetUCB1UnvisitedZero(t, n, player) ==
    IF t.visits[n] = 0 THEN 0
    ELSE IF t.parent[n] = NullNode THEN 0
    ELSE ScorePerVisit(t, n, player)
         + SqrtTwoLnOver[t.visits[t.parent[n]]][t.visits[n]]

(* getUCB1(player), in millionths. *)
GetUCB1(t, n, player) ==
    IF t.visits[n] = 0 THEN Infinity
    ELSE IF t.parent[n] = NullNode THEN 0
    ELSE ScorePerVisit(t, n, player)
         + SqrtTwoLnOver[t.visits[t.parent[n]]][t.visits[n]]

(* A getChildren that does not mark the node of a RandomSelection. *)
GetChildrenFlagUnset(t, n, g) ==
    IF IsExpanded(t, n) THEN t
    ELSE LET movesResult == GetPossibleMoves(g)
             moves == movesResult.array
             kids == [i \in 1..Len(moves) |-> Append(n, i)]
             made == NewNodes(t, Range(kids),
                              [k \in Range(kids) |-> n],
                              [k \in Range(kids) |-> moves[Last(k)]])
         IN  [made EXCEPT
                !.children = (n :> kids) @@ @,
                !.queries[n] = @ + 1]

(* A getChildren that gives a child its index for its move. *)
GetChildrenIndexMoves(t, n, g) ==
    IF IsExpanded(t, n) THEN t
    ELSE LET movesResult == GetPossibleMoves(g)
             moves == movesResult.array
             kids == [i \in 1..Len(moves) |-> Append(n, i)]
             made == NewNodes(t, Range(kids),
                              [k \in Range(kids) |-> n],
                              [k \in Range(kids) |-> Last(k) - 1])
         IN  [made EXCEPT
                !.children = (n :> kids) @@ @,
                !.randomNode[n] = IF movesResult.random THEN TRUE ELSE @,
                !.queries[n] = @ + 1]

(* A getChildren without the test for children made earlier. *)
GetChildrenAgain(t, n, g) ==
    LET movesResult == GetPossibleMoves(g)
        moves == movesResult.array
        kids == [i \in 1..Len(moves) |-> Append(n, i)]
        made == NewNodes(t, Range(kids),
                         [k \in Range(kids) |-> n],
                         [k \in Range(kids) |-> moves[Last(k)]])
    IN  [made EXCEPT
           !.children = (n :> kids) @@ @,
           !.randomNode[n] = IF movesResult.random THEN TRUE ELSE @,
           !.queries[n] = @ + 1]

(* getChildren(game): the tree after the call; the array it returns is     *)
(* .children[n] of the result.                                             *)
GetChildren(t, n, g) ==
    IF IsExpanded(t, n) THEN t
    ELSE LET movesResult == GetPossibleMoves(g)
             moves == movesResult.array
             kids == [i \in 1..Len(moves) |-> Append(n, i)]
             made == NewNodes(t, Range(kids),
                              [k \in Range(kids) |-> n],
                              [k \in Range(kids) |-> moves[Last(k)]])
         IN  [made EXCEPT
                !.children = (n :> kids) @@ @,
                !.randomNode[n] = IF movesResult.random THEN TRUE ELSE @,
                !.queries[n] = @ + 1]

(* The draws of one shuffle of an array of n elements: the index j (here   *)
(* 1-based) drawn for each i from n down to 2.  When only the last element *)
(* of the result is read, it is fixed by the first draw (later swaps touch *)
(* lower positions only), and the other draws are left at "no swap".       *)
ShuffleDraws(n, lastOnly) ==
    IF lastOnly
    THEN {[i \in 2..n |-> IF i = n THEN j ELSE i] : j \in 1..Max(n, 1)}
    ELSE {d \in [2..n -> 1..n] : \A i \in 2..n : d[i] <= i}

RECURSIVE ShuffleFrom(_, _, _)
(* The Fisher-Yates loop from position i down. *)
ShuffleFrom(array, i, draws) ==
    IF i < 2 THEN array
    ELSE LET j == draws[i]
             swapped == [array EXCEPT ![i] = array[j], ![j] = array[i]]
         IN  ShuffleFrom(swapped, i - 1, draws)

Shuffle(array, draws) == ShuffleFrom(array, Len(array), draws)

(* A comparison with its operands the wrong way round. *)
CompareNodesSwapped(t, a, b, g) ==
    IF t.parent[a] = NullNode THEN 0
    ELSE LET currentPlayer == GetCurrentPlayer(g)
         IN  GetUCB1(t, b, currentPlayer) - GetUCB1(t, a, currentPlayer)

(* MCTS.compareNodes(a, b, game).  Infinity - Infinity is NaN, which       *)
(* Array.prototype.sort treats as 0; here the difference is 0.             *)
CompareNodes(t, a, b, g) ==
    IF t.parent[a] = NullNode THEN 0
    ELSE LET currentPlayer == GetCurrentPlayer(g)
         IN  GetUCB1(t, a, currentPlayer) - GetUCB1(t, b, currentPlayer)

RECURSIVE InsertSorted(_, _, _, _)
(* x placed after every element of `sorted` that does not compare above it. *)
InsertSorted(t, g, sorted, x) ==
    IF sorted = << >> THEN <<x>>
    ELSE IF CompareNodes(t, Last(sorted), x, g) <= 0 THEN Append(sorted, x)
    ELSE Append(InsertSorted(t, g, SubSeq(sorted, 1, Len(sorted) - 1), x),
                Last(sorted))

RECURSIVE SortFrom(_, _, _, _, _)
SortFrom(t, g, array, i, sorted) ==
    IF i > Len(array) THEN sorted
    ELSE SortFrom(t, g, array, i + 1, InsertSorted(t, g, sorted, array[i]))

(* array.sort((a, b) => compareNodes(a, b, game)): stable, ascending. *)
SortNodes(t, g, array) == SortFrom(t, g, array, 1, << >>)

(* The local array `shuffled` of nextMove when it returns: the shuffled     *)
(* copy of the children, sorted unless the node is a chance node.          *)
NextMoveArray(t, n, g, draws) ==
    LET children == GetChildren(t, n, g).children[n]
        shuffled == Shuffle(children, draws)
    IN  IF t.randomNode[n] THEN shuffled ELSE SortNodes(t, g, shuffled)

(* nextMove(game) throws 'Cannot get next move from a node with no         *)
(* children' when getChildren returns an empty array.                      *)
NextMoveThrows(t, n, g) == Len(GetChildren(t, n, g).children[n]) = 0

(* A nextMove that ranks the children of a chance node as well. *)
NextMoveAlwaysRanked(t, n, g, draws) ==
    LET children == GetChildren(t, n, g).children[n]
    IN  Last(SortNodes(t, g, Shuffle(children, draws)))

(* nextMove(game) on an expanded node with children, under the given       *)
(* random draws of its shuffle: the last element of `shuffled`.            *)
NextMove(t, n, g, draws) == Last(NextMoveArray(t, n, g, draws))

(* The node's own array after nextMove: the shuffle and the sort work on   *)
(* the copy [...children], so the node's array is as before.               *)
ChildrenAfterNextMove(children, shuffled) == children

(* The draws nextMove can make at node n. *)
NextMoveDraws(t, n) == ShuffleDraws(Len(t.children[n]), t.randomNode[n])

(* A visit that is not counted. *)
IncVisitsSkipped(t, n) == t

(* The root's visit is not counted (no visits++ before the loop). *)
IncVisitsBelowRoot(t, n) ==
    IF n = Root THEN t ELSE [t EXCEPT !.visits[n] = @ + 1]

(* A visit counted twice. *)
IncVisitsTwice(t, n) == [t EXCEPT !.visits[n] = @ + 2]

(* node.visits++ *)
IncVisits(t, n) == [t EXCEPT !.visits[n] = @ + 1]

(* A win counted twice. *)
IncWinsByTwo(w, key) ==
    IF key \in DOMAIN w THEN [w EXCEPT ![key] = @ + 2] ELSE (key :> 2) @@ w

(* node.wins[winnerKey] = (node.wins[winnerKey] ?? 0) + 1 *)
IncWins(w, key) ==
    IF key \in DOMAIN w THEN [w EXCEPT ![key] = @ + 1] ELSE (key :> 1) @@ w

(* A backpropagation that leaves out the first node of the path. *)
BackpropagateBelowRoot(t, nodes, won) ==
    IF won # NoPlayer
    THEN [t EXCEPT !.wins = [n \in DOMAIN @ |->
                                IF n \in Range(Tail(nodes))
                                THEN IncWins(@[n], String(won)) ELSE @[n]]]
    ELSE t

(* A backpropagation without the test for a null winner. *)
BackpropagateUnguarded(t, nodes, won) ==
    [t EXCEPT !.wins = [n \in DOMAIN @ |->
                           IF n \in Range(nodes)
                           THEN IncWins(@[n], String(won)) ELSE @[n]]]

(* The backpropagation loop of runSimulation over `nodes`. *)
Backpropagate(t, nodes, won) ==
    IF won # NoPlayer
    THEN [t EXCEPT !.wins = [n \in DOMAIN @ |->
                                IF n \in Range(nodes)
                                THEN IncWins(@[n], String(won)) ELSE @[n]]]
    ELSE t

RECURSIVE BestFrom(_, _, _, _)
(* The loop of selectMove and getBestMove over children[i..]. *)
BestFrom(t, children, i, bestChild) ==
    IF i > Len(children) THEN bestChild
    ELSE BestFrom(t, children, i + 1,
                  IF t.visits[children[i]] > t.visits[bestChild]
                  THEN children[i] ELSE bestChild)

RECURSIVE BestFromLast(_, _, _, _)
BestFromLast(t, children, i, bestChild) ==
    IF i > Len(children) THEN bestChild
    ELSE BestFromLast(t, children, i + 1,
                      IF t.visits[children[i]] >= t.visits[bestChild]
                      THEN children[i] ELSE bestChild)

(* The loop with >= in place of >: the last child of the most visited. *)
BestChildLastOfTies(t, children) == BestFromLast(t, children, 1, children[1])

BestChild(t, children) == BestFrom(t, children, 1, children[1])


(***************************************************************************)
(* class MCTS (src/src/index.ts).                                          *)
(***************************************************************************)
NoCall == [op |-> "none", i |-> 0, n |-> 0]
NoReturn == [op |-> "none", status |-> "none", value |-> NullMove]

(* No page: the engine is driven by a caller of its own. *)
NoPage ==
    [pc |-> "none", isPlayerTurn |-> FALSE, gameOver |-> FALSE,
     simulations |-> 0, showThinking |-> FALSE, batchSize |-> 0,
     completed |-> 0, toRun |-> 0, simCounter |-> << >>, batches |-> << >>,
     game |-> ThisGame, waiting |-> 0, newGames |-> 0]

(* new MCTS(game, rounds): the caller passes one of the positions of       *)
(* InitialGames and a round count, which may be zero or negative.          *)
Init ==
    /\ \E g \in InitialGames :
          objects = [o \in {ThisGame, CloneObj} |->
                        IF o = ThisGame THEN g ELSE NoGame]
    /\ rounds \in (0 - 1)..MaxRounds
    /\ tree = NewNodes(EmptyTree, {Root}, [n \in {Root} |-> NullNode],
                       [n \in {Root} |-> NullMove])
    /\ call = NoCall
    /\ pc = "idle"
    /\ simGame = NoObj
    /\ path = << >>
    /\ currentNode = NullNode
    /\ winner = NoPlayer
    /\ ret = NoReturn
    /\ simsRun = 0
    /\ pre = tree
    /\ rootGame = NoGame
    /\ ui = NoPage

(* A loop that runs once more than asked. *)
LoopContinuesOnceMore(round, count) == round <= count

(* The condition of the for loops of selectMove and runSimulations. *)
LoopContinues(round, count) == round < count

(* The caller's game at the root's expansion: getChildren on the root     *)
(* reads getPossibleMoves of the game once, when children is null.         *)
RootGameAfter(t1) ==
    IF ~IsExpanded(tree, Root) /\ IsExpanded(t1, Root)
    THEN objects[ThisGame] ELSE rootGame

(* selectMove() is entered: its loop runs `rounds` simulations. *)
SelectMove ==
    /\ pc = "idle"
    /\ simsRun + Max(rounds, 0) <= MaxSims
    /\ call' = [op |-> "selectMove", i |-> 0, n |-> rounds]
    /\ pc' = "loop"
    /\ ret' = NoReturn
    /\ UNCHANGED <<rootGame, ui, objects, rounds, tree, simGame, path, currentNode, winner,
                   simsRun, pre>>

(* runSimulations(count) is entered. *)
RunSimulations(count) ==
    /\ pc = "idle"
    /\ simsRun + Max(count, 0) <= MaxSims
    /\ call' = [op |-> "runSimulations", i |-> 0, n |-> count]
    /\ pc' = "loop"
    /\ ret' = NoReturn
    /\ UNCHANGED <<rootGame, ui, objects, rounds, tree, simGame, path, currentNode, winner,
                   simsRun, pre>>

(* A loop condition that holds of an empty array too. *)
WalkContinuesAtEmpty(children) == Len(children) >= 0

(* A loop condition that stops at a node with a single child. *)
WalkContinuesAboveOne(children) == Len(children) > 1

(* The condition of the while loop of runSimulation. *)
WalkContinues(children) == Len(children) > 0

(* runSimulation(), up to its while loop: the clone, the path holding the  *)
(* root, the root's visit. *)
RunSimulationBegin ==
    /\ pc = "loop"
    /\ LoopContinues(call.i, call.n)
    /\ LET target == CloneTarget(ThisGame)
       IN  /\ objects' = [objects EXCEPT ![target] = CloneState(objects[ThisGame])]
           /\ simGame' = target
    /\ path' = <<Root>>
    /\ currentNode' = Root
    /\ tree' = IncVisits(tree, Root)
    /\ pre' = tree
    /\ simsRun' = simsRun + 1
    /\ pc' = "walk"
    /\ UNCHANGED <<rootGame, ui, rounds, call, winner, ret>>

(* One pass of the while loop of runSimulation: the current node has       *)
(* children, nextMove picks one, which is visited, pushed and played.  An  *)
(* error thrown by nextMove is caught nowhere: it ends the simulation and  *)
(* the public call that runs it.                                           *)
WalkDown ==
    /\ pc = "walk"
    /\ LET t1 == GetChildren(tree, currentNode, objects[simGame])
       IN  /\ WalkContinues(t1.children[currentNode])
           /\ IF NextMoveThrows(t1, currentNode, objects[simGame])
              THEN /\ tree' = t1
                   /\ ret' = [op |-> call.op, status |-> "nextMoveError",
                              value |-> NullMove]
                   /\ pc' = "idle"
                   /\ UNCHANGED <<objects, currentNode, path>>
              ELSE /\ \E draws \in NextMoveDraws(t1, currentNode) :
                         LET next == NextMove(t1, currentNode, objects[simGame],
                                              draws)
                             shuffled == NextMoveArray(t1, currentNode,
                                                       objects[simGame], draws)
                             t2 == [t1 EXCEPT !.children[currentNode] =
                                                  ChildrenAfterNextMove(@, shuffled)]
                         IN  /\ tree' = IncVisits(t2, next)
                             /\ currentNode' = next
                             /\ path' = Append(path, next)
                             /\ objects' =
                                   IF t1.move[next] # NullMove
                                   THEN [objects EXCEPT
                                           ![simGame] = PerformMove(@, t1.move[next])]
                                   ELSE objects
                   /\ UNCHANGED <<pc, ret>>
    /\ UNCHANGED <<ui, rounds, call, simGame, winner, simsRun, pre>>
    /\ rootGame' = RootGameAfter(tree')

(* The while loop of runSimulation ends at a node without children; the    *)
(* winner is read, the path is credited, and the clone is dropped.         *)
RunSimulationEnd ==
    /\ pc = "walk"
    /\ LET t1 == GetChildren(tree, currentNode, objects[simGame])
           won == GetWinner(objects[simGame])
       IN  /\ ~WalkContinues(t1.children[currentNode])
           /\ winner' = won
           /\ tree' = Backpropagate(t1, path, won)
    /\ objects' = [objects EXCEPT ![CloneObj] = NoGame]
    /\ simGame' = NoObj
    /\ call' = [call EXCEPT !.i = @ + 1]
    /\ pc' = "loop"
    /\ UNCHANGED <<ui, rounds, path, currentNode, ret, simsRun, pre>>
    /\ rootGame' = RootGameAfter(tree')

(* A selectMove that tests `!bestChild.move`, which move 0 satisfies. *)
SelectMoveResultFalsyMove(t, children) ==
    IF Len(children) = 0
    THEN [op |-> "selectMove", status |-> "throw", value |-> NullMove]
    ELSE LET bestChild == BestChild(t, children)
         IN  IF t.move[bestChild] = NullMove \/ t.move[bestChild] = 0
             THEN [op |-> "selectMove", status |-> "throw", value |-> NullMove]
             ELSE [op |-> "selectMove", status |-> "ok",
                   value |-> t.move[bestChild]]

(* A selectMove that returns null for a root without children. *)
SelectMoveResultNullForEmpty(t, children) ==
    IF Len(children) = 0
    THEN [op |-> "selectMove", status |-> "ok", value |-> NullMove]
    ELSE LET bestChild == BestChild(t, children)
         IN  IF t.move[bestChild] = NullMove
             THEN [op |-> "selectMove", status |-> "throw", value |-> NullMove]
             ELSE [op |-> "selectMove", status |-> "ok",
                   value |-> t.move[bestChild]]

(* What selectMove returns or throws for the root's children. *)
SelectMoveResult(t, children) ==
    IF Len(children) = 0
    THEN [op |-> "selectMove", status |-> "throw", value |-> NullMove]
    ELSE LET bestChild == BestChild(t, children)
         IN  IF t.move[bestChild] = NullMove
             THEN [op |-> "selectMove", status |-> "throw", value |-> NullMove]
             ELSE [op |-> "selectMove", status |-> "ok",
                   value |-> t.move[bestChild]]

(* selectMove() after its loop. *)
SelectMoveReturn ==
    /\ pc = "loop"
    /\ call.op = "selectMove"
    /\ ~LoopContinues(call.i, call.n)
    /\ LET t1 == GetChildren(tree, Root, objects[ThisGame])
       IN  /\ tree' = t1
           /\ ret' = SelectMoveResult(t1, t1.children[Root])
    /\ pc' = "idle"
    /\ UNCHANGED <<ui, call, objects, rounds, simGame, path, currentNode, winner,
                   simsRun, pre>>
    /\ rootGame' = RootGameAfter(tree')

(* runSimulations() after its loop. *)
RunSimulationsReturn ==
    /\ pc = "loop"
    /\ call.op = "runSimulations"
    /\ ~LoopContinues(call.i, call.n)
    /\ ret' = [op |-> "runSimulations", status |-> "ok", value |-> NullMove]
    /\ pc' = "idle"
    /\ UNCHANGED <<rootGame, ui, call, objects, rounds, tree, simGame, path, currentNode,
                   winner, simsRun, pre>>

RECURSIVE SelectSeqBy(_, _)
(* array.filter: the elements of `array` at the positions of `keep`. *)
SelectSeqBy(array, keep) ==
    IF array = << >> THEN << >>
    ELSE (IF Head(keep) THEN <<Head(array)>> ELSE << >>)
         \o SelectSeqBy(Tail(array), Tail(keep))

RECURSIVE InsertByVisits(_, _)
(* x placed after every entry of `sorted` with at least x's visits. *)
InsertByVisits(sorted, x) ==
    IF sorted = << >> THEN <<x>>
    ELSE IF x.visits - Last(sorted).visits <= 0 THEN Append(sorted, x)
    ELSE Append(InsertByVisits(SubSeq(sorted, 1, Len(sorted) - 1), x),
                Last(sorted))

RECURSIVE SortByVisitsFrom(_, _, _)
SortByVisitsFrom(array, i, sorted) ==
    IF i > Len(array) THEN sorted
    ELSE SortByVisitsFrom(array, i + 1, InsertByVisits(sorted, array[i]))

(* array.sort((a, b) => b.visits - a.visits): stable, descending. *)
SortByVisits(array) == SortByVisitsFrom(array, 1, << >>)

(* playerWins / visits of toTreeInfo and getMoveStats, in millionths. *)
WinRate(t, n, player) ==
    IF t.visits[n] > 0
    THEN (1000000 * Tally(t, n, String(player))) \div t.visits[n]
    ELSE 0

RECURSIVE ToTreeInfo(_, _, _, _)
(* Node.toTreeInfo(player, maxDepth). *)
ToTreeInfo(t, n, player, maxDepth) ==
    LET kids == IF maxDepth > 0 /\ IsExpanded(t, n) THEN t.children[n] ELSE << >>
        visited == SelectSeqBy(kids, [i \in DOMAIN kids |-> t.visits[kids[i]] > 0])
        sorted == SortByVisits([i \in DOMAIN visited |->
                                  [node |-> visited[i],
                                   visits |-> t.visits[visited[i]]]])
        top == SubSeq(sorted, 1, IF Len(sorted) < 10 THEN Len(sorted) ELSE 10)
    IN  [move |-> t.move[n],
         visits |-> t.visits[n],
         wins |-> t.wins[n],
         winRate |-> WinRate(t, n, player),
         children |-> [i \in DOMAIN top |->
                          ToTreeInfo(t, top[i].node, player, maxDepth - 1)]]

(* getStats(): expands the root against this.game when it is not expanded. *)
GetStats ==
    /\ pc = "idle"
    /\ call' = NoCall
    /\ LET t1 == GetChildren(tree, Root, objects[ThisGame])
           children == t1.children[Root]
       IN  /\ tree' = t1
           /\ ret' =
                 IF \E i \in DOMAIN children : t1.move[children[i]] = NullMove
                 THEN [op |-> "getStats", status |-> "throw", value |-> << >>]
                 ELSE [op |-> "getStats", status |-> "ok",
                       value |-> [i \in DOMAIN children |->
                                    [move |-> t1.move[children[i]],
                                     visits |-> t1.visits[children[i]],
                                     wins |-> t1.wins[children[i]]]]]
    /\ UNCHANGED <<ui, objects, rounds, pc, simGame, path, currentNode,
                   winner, simsRun, pre>>
    /\ rootGame' = RootGameAfter(tree')

(* getSimulationCount() *)
GetSimulationCount ==
    /\ pc = "idle"
    /\ call' = NoCall
    /\ ret' = [op |-> "getSimulationCount", status |-> "ok",
               value |-> tree.visits[Root]]
    /\ UNCHANGED <<rootGame, ui, objects, rounds, tree, pc, simGame, path,
                   currentNode, winner, simsRun, pre>>

(* getTreeInfo(maxDepth) *)
GetTreeInfo(maxDepth) ==
    /\ pc = "idle"
    /\ call' = NoCall
    /\ LET player == GetCurrentPlayer(objects[ThisGame])
       IN  ret' = [op |-> "getTreeInfo", status |-> "ok",
                   value |-> ToTreeInfo(tree, Root, player, maxDepth)]
    /\ UNCHANGED <<rootGame, ui, objects, rounds, tree, pc, simGame, path,
                   currentNode, winner, simsRun, pre>>

(* A getBestMove that takes the last of the most visited children. *)
BestMoveLastOfTies(t) ==
    IF ~IsExpanded(t, Root) \/ Len(t.children[Root]) = 0 THEN NullMove
    ELSE t.move[BestChildLastOfTies(t, t.children[Root])]

(* What getBestMove returns: null (NullMove) or the best child's move. *)
BestMove(t) ==
    IF ~IsExpanded(t, Root) \/ Len(t.children[Root]) = 0 THEN NullMove
    ELSE t.move[BestChild(t, t.children[Root])]

(* getBestMove() *)
GetBestMove ==
    /\ pc = "idle"
    /\ call' = NoCall
    /\ ret' = [op |-> "getBestMove", status |-> "ok", value |-> BestMove(tree)]
    /\ UNCHANGED <<rootGame, ui, objects, rounds, tree, pc, simGame, path,
                   currentNode, winner, simsRun, pre>>

(* A getMoveStats that keeps the children without visits. *)
MoveStatsUnfiltered(t, player) ==
    IF ~IsExpanded(t, Root) THEN << >>
    ELSE LET children == t.children[Root]
             kept == SelectSeqBy(children,
                        [i \in DOMAIN children |-> t.move[children[i]] # NullMove])
         IN  SortByVisits([i \in DOMAIN kept |->
                             [move |-> t.move[kept[i]],
                              visits |-> t.visits[kept[i]],
                              wins |-> t.wins[kept[i]],
                              winRate |-> WinRate(t, kept[i], player)]])

(* What getMoveStats returns. *)
MoveStats(t, player) ==
    IF ~IsExpanded(t, Root) THEN << >>
    ELSE LET children == t.children[Root]
             kept == SelectSeqBy(children,
                        [i \in DOMAIN children |->
                            /\ t.move[children[i]] # NullMove
                            /\ t.visits[children[i]] > 0])
         IN  SortByVisits([i \in DOMAIN kept |->
                             [move |-> t.move[kept[i]],
                              visits |-> t.visits[kept[i]],
                              wins |-> t.wins[kept[i]],
                              winRate |-> WinRate(t, kept[i], player)]])

(* getMoveStats() *)
GetMoveStats ==
    /\ pc = "idle"
    /\ call' = NoCall
    /\ ret' = [op |-> "getMoveStats", status |-> "ok",
               value |-> MoveStats(tree, GetCurrentPlayer(objects[ThisGame]))]
    /\ UNCHANGED <<rootGame, ui, objects, rounds, tree, pc, simGame, path,
                   currentNode, winner, simsRun, pre>>

(* A returned tally that is the node's own wins object. *)
TallyObjectShared(n) == n

(* The object behind a returned `wins`: { ...wins } is a new object that   *)
(* belongs to no node (NullNode); otherwise the node whose wins it is.     *)
TallyObject(n) == NullNode

(* The nodes whose tallies the last call returned. *)
ReturnedNodes ==
    LET visited == {c \in Range(tree.children[Root]) : tree.visits[c] > 0}
    IN  CASE ret.op = "getStats" /\ ret.status = "ok" -> Range(tree.children[Root])
          [] ret.op = "getMoveStats" /\ ret.value # << >> -> visited
          [] ret.op = "getTreeInfo" ->
                {Root} \cup (IF ret.value.children # << >> THEN visited ELSE {})
          [] OTHER -> {}

(* The caller writes to a tally object it was handed: it counts one more   *)
(* under `key` in the `wins` returned for node n.                          *)
CallerChangesTally(n, key) ==
    /\ pc = "idle"
    /\ n \in ReturnedNodes
    /\ tree' = IF TallyObject(n) = NullNode THEN tree
               ELSE [tree EXCEPT !.wins[TallyObject(n)] = IncWins(@, key)]
    /\ ret' = [op |-> "caller", status |-> "changed", value |-> NullMove]
    /\ call' = NoCall
    /\ UNCHANGED <<rootGame, ui, objects, rounds, pc, simGame, path, currentNode, winner,
                   simsRun, pre>>

(* The caller plays a legal move on its game between two calls of the     *)
(* engine: game.performMove(m).                                            *)
CallerPerformMove(m) ==
    /\ pc = "idle"
    /\ m \in Range(GetPossibleMoves(objects[ThisGame]).array)
    /\ objects' = [objects EXCEPT ![ThisGame] = PerformMove(@, m)]
    /\ ret' = [op |-> "performMove", status |-> "ok", value |-> NullMove]
    /\ call' = NoCall
    /\ UNCHANGED <<rootGame, ui, rounds, tree, pc, simGame, path, currentNode,
                   winner, simsRun, pre>>

Next ==
    \/ SelectMove
    \/ \E count \in (0 - 1)..MaxBatch : RunSimulations(count)
    \/ RunSimulationBegin
    \/ WalkDown
    \/ RunSimulationEnd
    \/ SelectMoveReturn
    \/ RunSimulationsReturn
    \/ GetStats
    \/ GetSimulationCount
    \/ \E maxDepth \in {0, 1, 3} : GetTreeInfo(maxDepth)
    \/ GetBestMove
    \/ GetMoveStats
    \/ \E n \in Nodes(tree), key \in {"0", "X"} : CallerChangesTally(n, key)

Spec == Init /\ [][Next]_vars

(* The body of the while loop of runSimulation and what follows the loop. *)
WalkStep ==
    \/ WalkDown
    \/ RunSimulationEnd

(* Inside runSimulation (pc "walk") the node has children or has none, so  *)
(* one step of WalkStep is possible, and outside none is: weak fairness of *)
(* WalkStep, with its enabling condition written out.                      *)
WalkGoesOn == []<>(pc # "walk") \/ []<><<WalkStep>>_vars

(* A call that has been entered runs on to its end: nothing but the        *)
(* engine's own code runs while selectMove or runSimulations is running.   *)
FairSpec ==
    /\ Spec
    /\ WF_vars(RunSimulationBegin)
    /\ WF_vars(SelectMoveReturn)
    /\ WF_vars(RunSimulationsReturn)
    /\ WalkGoesOn

(* The engine with a caller that also plays on its game. *)
NextCaller ==
    \/ Next
    \/ \E m \in 0..8 : CallerPerformMove(m)

(* The positions the playing caller starts from. *)
CallerGames == {TwoCellGame, TicTacToeGame(TwoLeftBoard, "O")}

InitCaller == Init /\ objects[ThisGame] \in CallerGames

SpecCaller == InitCaller /\ [][NextCaller]_vars


(***************************************************************************)
(* The tic-tac-toe page (src/web/src/tictactoe.ts): the player is X and    *)
(* moves first, the engine answers for O.  `game` is the object ThisGame,  *)
(* which doAIMove hands to the engine it constructs.                       *)
(***************************************************************************)
MaxSimulations == 22

(* The values of the `simulations` select that the page is run with. *)
SimulationChoices == {1, MaxSimulations - 1, MaxSimulations}

(* A board of a game in play with the player to move. *)
ThreatsBoard ==
    <<"X", "O", "X",
      "O", "O", "X",
      NoPlayer, NoPlayer, NoPlayer>>

(* The page some moves into a game: the positions it is run from. *)
PageGames ==
    {TicTacToeGame(ThreeLeftBoard, "X"), TicTacToeGame(ThreatsBoard, "X")}

Min(a, b) == IF a < b THEN a ELSE b

MaxEmptyCells == 2  \* most empty cells of a board a search is started on
MaxNewGames == 1    \* most clicks on New Game

(* The object of a `new TicTacToeGame()` of startNewGame.  The game of an  *)
(* earlier New Game is garbage by then, so one object serves them all.     *)
NewGameObj == "newGame"

EmptyBoard == [i \in 1..9 |-> NoPlayer]

(* new TicTacToeGame(): board of nulls, currentPlayer = 'X' *)
NewTicTacToeGame == TicTacToeGame(EmptyBoard, "X")

(* The searches the model follows: on the game object the engine of the    *)
(* model is bound to, from a board of at most MaxEmptyCells empty cells.   *)
SearchFits ==
    /\ ui.game = ThisGame
    /\ Len(EmptyCells(objects[ui.game].board, 0)) <= MaxEmptyCells

(* A doAIMove() has begun and has not returned. *)
SearchInProgress == ui.pc \in {"while", "batch", "yield", "all"}

(* Math.ceil(a / b) for b > 0 *)
Ceil(a, b) == 0 - ((0 - a) \div b)

(* const batchSize = Math.min(50, Math.ceil(simulations / 20)) *)
BatchSize(simulations) == Min(50, Ceil(simulations, 20))

(* The four-in-a-row page (src/unnamed/part_004):                          *)
(* const batchSize = Math.min(100, Math.ceil(simulations / 15))            *)
BatchSizeFourInARow(simulations) == Min(100, Ceil(simulations, 15))

(* A batch that ignores what remains. *)
ToRunWholeBatch(batchSize, remaining) == batchSize

(* const toRun = Math.min(batchSize, remaining) *)
ToRun(batchSize, remaining) == Min(batchSize, remaining)

(* while (completed < simulations) *)
BatchLoopContinues(completed, simulations) == completed < simulations

(* The page of a game in play: the player's turn, no timer pending. *)
InitUI ==
    /\ \E g \in PageGames :
          objects = [o \in {ThisGame, CloneObj} |->
                        IF o = ThisGame THEN g ELSE NoGame]
    /\ rounds = 0
    /\ tree = NewNodes(EmptyTree, {Root}, [n \in {Root} |-> NullNode],
                       [n \in {Root} |-> NullMove])
    /\ call = NoCall
    /\ pc = "idle"
    /\ simGame = NoObj
    /\ path = << >>
    /\ currentNode = NullNode
    /\ winner = NoPlayer
    /\ ret = NoReturn
    /\ simsRun = 0
    /\ pre = tree
    /\ rootGame = NoGame
    /\ ui = [NoPage EXCEPT !.pc = "ready", !.isPlayerTurn = TRUE]

(* handleCellClick(row, col): an event, handled when no other code of the  *)
(* page runs.  An accepted move that leaves the game open hands the turn   *)
(* to the engine: setTimeout(doAIMove, 50).  ui.pc "scheduled" is one such *)
(* timer pending with no search in progress; ui.waiting counts the others. *)
HandleCellClick(row, col) ==
    /\ ui.pc \in {"ready", "scheduled", "yield"}
    /\ pc = "idle"
    /\ LET cell == 3 * row + col
           g == PerformMove(objects[ui.game], cell)
       IN  IF ~ui.isPlayerTurn \/ ui.gameOver
              \/ objects[ui.game].board[cell + 1] # NoPlayer
           THEN UNCHANGED <<objects, ui>>
           ELSE /\ objects' = [objects EXCEPT ![ui.game] = g]
                /\ ui' = IF GetWinner(g) # NoPlayer
                            \/ Len(GetPossibleMoves(g).array) = 0
                         THEN [ui EXCEPT !.gameOver = TRUE]
                         ELSE IF ui.pc = "ready"
                         THEN [ui EXCEPT !.isPlayerTurn = FALSE,
                                         !.pc = "scheduled"]
                         ELSE [ui EXCEPT !.isPlayerTurn = FALSE,
                                         !.waiting = @ + 1]
    /\ UNCHANGED <<rootGame, rounds, tree, call, pc, simGame, path, currentNode, winner,
                   ret, simsRun, pre>>

(* doAIMove() up to its first call of the engine: the selects are read and *)
(* a new engine is constructed on `game`.  With show-thinking the batch    *)
(* loop is entered; without, runSimulations(simulations) is called.        *)
DoAIMove ==
    /\ ui.pc = "scheduled"
    /\ pc = "idle"
    /\ SearchFits
    /\ \E simulations \in SimulationChoices, showThinking \in BOOLEAN :
          /\ rounds' = simulations
          /\ ui' = [ui EXCEPT !.pc = IF showThinking THEN "while" ELSE "all",
                              !.simulations = simulations,
                              !.showThinking = showThinking,
                              !.batchSize = IF showThinking
                                            THEN BatchSize(simulations) ELSE 0,
                              !.completed = 0,
                              !.toRun = 0,
                              !.batches = << >>]
          /\ call' = IF showThinking THEN NoCall
                     ELSE [op |-> "runSimulations", i |-> 0, n |-> simulations]
          /\ pc' = IF showThinking THEN "idle" ELSE "loop"
    /\ tree' = NewNodes(EmptyTree, {Root}, [n \in {Root} |-> NullNode],
                        [n \in {Root} |-> NullMove])
    /\ pre' = tree'
    /\ simsRun' = 0
    /\ ret' = NoReturn
    /\ UNCHANGED <<objects, simGame, path, currentNode, winner>>
    /\ rootGame' = NoGame

(* One pass of the batch loop up to its call mcts.runSimulations(toRun). *)
DoAIMoveBatch ==
    /\ ui.pc = "while"
    /\ pc = "idle"
    /\ BatchLoopContinues(ui.completed, ui.simulations)
    /\ LET remaining == ui.simulations - ui.completed
           toRun == ToRun(ui.batchSize, remaining)
       IN  /\ ui' = [ui EXCEPT !.pc = "batch", !.toRun = toRun]
           /\ call' = [op |-> "runSimulations", i |-> 0, n |-> toRun]
    /\ pc' = "loop"
    /\ ret' = NoReturn
    /\ UNCHANGED <<rootGame, objects, rounds, tree, simGame, path, currentNode, winner,
                   simsRun, pre>>

(* The pass of the batch loop after runSimulations has returned: the       *)
(* counter, the highlights from getMoveStats(), the tree from              *)
(* getTreeInfo(3), and the await of a 10 ms timer.                         *)
DoAIMoveBatchDone ==
    /\ ui.pc = "batch"
    /\ pc = "idle"
    /\ ret.op = "runSimulations" /\ ret.status = "ok"
    /\ LET completed == ui.completed + ui.toRun
       IN  ui' = [ui EXCEPT !.pc = "yield",
                            !.completed = completed,
                            !.simCounter = <<completed, ui.simulations>>,
                            !.batches = Append(@, ui.toRun)]
    /\ ret' = [op |-> "getTreeInfo", status |-> "ok",
               value |-> ToTreeInfo(tree, Root,
                                    GetCurrentPlayer(objects[ThisGame]), 3)]
    /\ call' = NoCall
    /\ UNCHANGED <<rootGame, objects, rounds, tree, pc, simGame, path, currentNode,
                   winner, simsRun, pre>>

(* The 10 ms timer fires and doAIMove goes on to the loop's test. *)
DoAIMoveResume ==
    /\ ui.pc = "yield"
    /\ pc = "idle"
    /\ ui' = [ui EXCEPT !.pc = "while"]
    /\ UNCHANGED <<rootGame, objects, rounds, tree, call, pc, simGame, path,
                   currentNode, winner, ret, simsRun, pre>>

(* doAIMove() after the simulations: getBestMove(), the move on the        *)
(* object `game` refers to by now, and the end of the game or the player's *)
(* turn.  A doAIMove timer that waited is then the one pending.            *)
DoAIMoveEnd ==
    /\ pc = "idle"
    /\ IF ui.pc = "while"
       THEN ~BatchLoopContinues(ui.completed, ui.simulations)
       ELSE ui.pc = "all" /\ ret.op = "runSimulations" /\ ret.status = "ok"
    /\ LET bestMove == BestMove(tree)
           shown == IF ui.pc = "all"
                    THEN <<ui.simulations, ui.simulations>> ELSE ui.simCounter
           g == PerformMove(objects[ui.game], bestMove)
           after == IF ui.waiting > 0 THEN "scheduled" ELSE "ready"
           waiting == Max(ui.waiting - 1, 0)
       IN  IF bestMove = NullMove
           THEN /\ ui' = [ui EXCEPT !.pc = after, !.waiting = waiting,
                                    !.gameOver = TRUE,
                                    !.simCounter = shown]
                /\ UNCHANGED objects
           ELSE /\ objects' = [objects EXCEPT ![ui.game] = g]
                /\ ui' = IF GetWinner(g) # NoPlayer
                            \/ Len(GetPossibleMoves(g).array) = 0
                         THEN [ui EXCEPT !.pc = after, !.waiting = waiting,
                                         !.gameOver = TRUE,
                                         !.simCounter = shown]
                         ELSE [ui EXCEPT !.pc = after, !.waiting = waiting,
                                         !.isPlayerTurn = TRUE,
                                         !.simCounter = << >>]
    /\ ret' = [op |-> "getBestMove", status |-> "ok", value |-> BestMove(tree)]
    /\ call' = NoCall
    /\ UNCHANGED <<rootGame, rounds, tree, pc, simGame, path, currentNode, winner,
                   simsRun, pre>>

(* startNewGame(): a click on New Game, handled when no other code of the  *)
(* page runs.  `game` is bound to a new object; a search in progress and   *)
(* the timers that are pending are left as they are.                       *)
StartNewGame ==
    /\ ui.pc \in {"ready", "scheduled", "yield"}
    /\ pc = "idle"
    /\ ui.newGames < MaxNewGames
    /\ objects' = [o \in DOMAIN objects \cup {NewGameObj} |->
                      IF o = NewGameObj THEN NewTicTacToeGame ELSE objects[o]]
    /\ ui' = [ui EXCEPT !.game = NewGameObj,
                        !.isPlayerTurn = TRUE,
                        !.gameOver = FALSE,
                        !.simCounter = << >>,
                        !.newGames = @ + 1]
    /\ UNCHANGED <<rootGame, rounds, tree, call, pc, simGame, path, currentNode,
                   winner, ret, simsRun, pre>>

(* The timers of the page: setTimeout(doAIMove, 50) and the 10 ms timer    *)
(* that doAIMove awaits between batches.                                   *)
TimerStep ==
    \/ DoAIMove
    \/ DoAIMoveResume

(* The code of doAIMove between its awaits, and the engine under it. *)
CodeStep ==
    \/ DoAIMoveBatch
    \/ DoAIMoveBatchDone
    \/ DoAIMoveEnd
    \/ RunSimulationBegin
    \/ WalkDown
    \/ RunSimulationEnd
    \/ RunSimulationsReturn

NextUI ==
    \/ \E row, col \in 0..2 : HandleCellClick(row, col)
    \/ StartNewGame
    \/ TimerStep
    \/ CodeStep

(* doAIMove is between two awaits *)
CodeRuns == ui.pc \in {"while", "batch", "all"}

(* Code that runs goes on to its next await or its end: weak fairness of   *)
(* CodeStep, whose steps are possible exactly when CodeRuns.               *)
CodeRunsOn == []<>(~CodeRuns) \/ []<><<CodeStep>>_vars

(* The event loop runs every timer that is due, and code that runs goes on. *)
SpecUI ==
    /\ InitUI
    /\ [][NextUI]_vars
    /\ WF_vars(DoAIMove)
    /\ WF_vars(DoAIMoveResume)
    /\ CodeRunsOn


(***************************************************************************)
(* Properties.                                                             *)
(***************************************************************************)
Players == {"num0", "num1", "X", "O"}
Keys == {String(p) : p \in Players} \cup {NoPlayer}

RootChildren == tree.children[Root]
ChildVisits(t, n) == [i \in DOMAIN t.children[n] |-> t.visits[t.children[n][i]]]

(* A simulation has run to its end and none is under way. *)
SimulationCompleted == simsRun > 0 /\ pc # "walk"

PreVisits(n) == IF n \in Nodes(pre) THEN pre.visits[n] ELSE 0
PreTally(n, key) == IF n \in Nodes(pre) THEN Tally(pre, n, key) ELSE 0

SelectMoveReturned == ret.op = "selectMove" /\ ret.status = "ok"

(* C1: the move selectMove returns is the move of the first root child, in *)
(* the root's child order, among those with the highest visit count.       *)
C1_SelectMoveMostVisitedFirst ==
    SelectMoveReturned =>
        \E i \in DOMAIN RootChildren :
            /\ ret.value = tree.move[RootChildren[i]]
            /\ \A j \in DOMAIN RootChildren :
                  /\ tree.visits[RootChildren[j]] <= tree.visits[RootChildren[i]]
                  /\ j < i => tree.visits[RootChildren[j]]
                                < tree.visits[RootChildren[i]]

(* selectMove has returned from a tree where two root children share the   *)
(* highest, non-zero visit count. *)
C1_Witness ==
    /\ SelectMoveReturned
    /\ \E i, j \in DOMAIN RootChildren :
          /\ i < j
          /\ tree.visits[RootChildren[i]] = tree.visits[RootChildren[j]]
          /\ tree.visits[RootChildren[i]] > 0
          /\ \A k \in DOMAIN RootChildren :
                tree.visits[RootChildren[k]] <= tree.visits[RootChildren[i]]

(* C2: no step of the engine (selectMove, runSimulations, getStats,        *)
(* getMoveStats, getBestMove, getTreeInfo, getSimulationCount, and every   *)
(* step of a simulation) changes the state of the game object given to the *)
(* constructor.                                                            *)
C2_CallerGameUnchanged ==
    [][objects'[ThisGame] = objects[ThisGame]]_vars

(* A simulation has played moves on its clone, which now differs from the  *)
(* caller's game. *)
C2_Witness ==
    /\ pc = "walk"
    /\ Len(path) >= 2
    /\ simGame = CloneObj
    /\ objects[simGame] # objects[ThisGame]

(* C3 as stated: after a selectMove that returns, the root's visit count   *)
(* and the sum of its children's visit counts both equal `rounds`.         *)
C3_RootVisitsEqualRounds ==
    SelectMoveReturned =>
        /\ tree.visits[Root] = rounds
        /\ SumSeq(ChildVisits(tree, Root)) = rounds

(* C3 amended: after a selectMove that returns, the root's visit count is  *)
(* the number of simulations run on the engine since construction, which   *)
(* is the number run before the call plus max(rounds, 0), and the sum of   *)
(* the visit counts of the root's children equals it.                      *)
C3_RootVisitsEqualSimulations ==
    SelectMoveReturned =>
        /\ tree.visits[Root] = simsRun
        /\ call.i = Max(rounds, 0)
        /\ SumSeq(ChildVisits(tree, Root)) = tree.visits[Root]

(* selectMove has returned from a search that was not the first use of the *)
(* tree. *)
C3_Witness ==
    /\ SelectMoveReturned
    /\ rounds > 0
    /\ simsRun > call.i
    /\ Len(RootChildren) >= 2

(* C4: a simulation that ended with a winner has added exactly one to the  *)
(* winner's tally on every node of its path, which runs from the root to   *)
(* the node where the walk stopped, and has changed no other tally of any  *)
(* node.                                                                   *)
C4_WinnerCreditedAlongPath ==
    (SimulationCompleted /\ winner # NoPlayer) =>
        /\ path[1] = Root
        /\ IsExpanded(tree, Last(path)) /\ tree.children[Last(path)] = << >>
        /\ \A i \in 2..Len(path) : tree.parent[path[i]] = path[i - 1]
        /\ \A n \in Nodes(tree) : \A key \in Keys :
              Tally(tree, n, key) =
                  PreTally(n, key)
                  + (IF n \in Range(path) /\ key = String(winner) THEN 1 ELSE 0)

(* A simulation with a winner has ended below the root's children while    *)
(* other nodes of the tree hold tallies of their own. *)
C4_Witness ==
    /\ SimulationCompleted
    /\ winner # NoPlayer
    /\ Len(path) >= 3
    /\ \E n \in Nodes(tree) \ Range(path) : TotalWins(tree, n) > 0

(* C5: a simulation that ended without a winner has changed no tally of    *)
(* any node and has added one to the visit count of every node of its path.*)
C5_DrawCreditsNobody ==
    (SimulationCompleted /\ winner = NoPlayer) =>
        /\ \A n \in Nodes(tree) : \A key \in Keys :
              Tally(tree, n, key) = PreTally(n, key)
        /\ \A n \in Nodes(tree) : DOMAIN tree.wins[n] \subseteq Keys \ {NoPlayer}
        /\ \A n \in Range(path) : tree.visits[n] = PreVisits(n) + 1

(* A simulation has ended in a draw below the root. *)
C5_Witness ==
    /\ SimulationCompleted
    /\ winner = NoPlayer
    /\ Len(path) >= 3


Draws(t, n) == t.visits[n] - TotalWins(t, n)

(* The exploitation part of a visited node's score below the root. *)
Exploitation(t, n, player) ==
    GetUCB1(t, n, player) - SqrtTwoLnOver[t.visits[t.parent[n]]][t.visits[n]]

Scored(t) == {n \in Nodes(t) : t.visits[n] > 0 /\ t.parent[n] # NullNode}

(* The pairs of different children of one node that have the same,        *)
(* non-zero, number of visits.                                             *)
Siblings(t) ==
    UNION {{pair \in Range(t.children[m]) \X Range(t.children[m]) :
               /\ pair[1] # pair[2]
               /\ t.visits[pair[1]] > 0
               /\ t.visits[pair[1]] = t.visits[pair[2]]} : m \in DOMAIN t.children}

(* C6 as stated: the exploitation part of a visited node below the root is *)
(* wins[p] / visits, and two siblings with equal visits and equal wins[p]  *)
(* have the same score.                                                    *)
C6_DrawsScoreZero ==
    /\ \A n \in Scored(tree) : \A p \in Players :
          Exploitation(tree, n, p)
              = (1000000 * Tally(tree, n, String(p))) \div tree.visits[n]
    /\ \A pair \in Siblings(tree) : \A p \in Players :
          Tally(tree, pair[1], String(p)) = Tally(tree, pair[2], String(p))
              => GetUCB1(tree, pair[1], p) = GetUCB1(tree, pair[2], p)

(* C6 amended: the exploitation part of a visited node below the root is   *)
(* (wins[p] + draws / 2) / visits, rounded down to a millionth, where      *)
(* draws = visits - (sum of all tallies); of two siblings with equal       *)
(* visits and equal wins[p], the one with more draws scores higher, and    *)
(* they score the same when their draws are equal.                         *)
C6_DrawsScoreHalf ==
    /\ \A n \in Scored(tree) :
          LET draws == Draws(tree, n)
              visits == tree.visits[n]
          IN  \A p \in Players :
                LET e == Exploitation(tree, n, p)
                    twice == 2 * Tally(tree, n, String(p)) + draws
                IN  /\ 2 * visits * e <= 1000000 * twice
                    /\ 1000000 * twice < 2 * visits * (e + 1)
    /\ \A pair \in Siblings(tree) :
          LET more == Draws(tree, pair[1]) - Draws(tree, pair[2])
          IN  more >= 0 =>
                \A p \in Players :
                  Tally(tree, pair[1], String(p)) = Tally(tree, pair[2], String(p))
                    => LET ahead == GetUCB1(tree, pair[1], p)
                                      - GetUCB1(tree, pair[2], p)
                       IN  IF more = 0 THEN ahead = 0 ELSE ahead > 0

(* Two siblings with equal visits and equal wins of the player to move at  *)
(* their parent, one with a draw more than the other (which has a loss).   *)
C6_Witness ==
    \E pair \in Siblings(tree) :
        LET p == GetCurrentPlayer(objects[ThisGame])
        IN  /\ tree.parent[pair[1]] = Root
            /\ Tally(tree, pair[1], String(p)) = Tally(tree, pair[2], String(p))
            /\ Draws(tree, pair[1]) > Draws(tree, pair[2])
            /\ TotalWins(tree, pair[2]) > 0

(* C7: when a simulation steps from a node that is not a chance node to    *)
(* one of its children, no child of that node has a higher score than the  *)
(* chosen one, the scores being those of the player to move in the         *)
(* simulated game before the chosen child's move is played.                *)
C7_DecisionPicksMaximum ==
    [][(pc = "walk" /\ Len(path') = Len(path) + 1 /\ ~tree'.randomNode[currentNode])
        => LET t1 == GetChildren(tree, currentNode, objects[simGame])
               player == GetCurrentPlayer(objects[simGame])
           IN  /\ currentNode' \in Range(t1.children[currentNode])
               /\ \A c \in Range(t1.children[currentNode]) :
                     GetUCB1(t1, currentNode', player) >= GetUCB1(t1, c, player)]_vars

(* A simulation has stepped to a child that had been visited before, at a  *)
(* decision node all of whose children had been visited, and some sibling  *)
(* has another score.                                                      *)
C7_Witness ==
    /\ pc = "walk"
    /\ Len(path) >= 2
    /\ tree.visits[currentNode] >= 2
    /\ LET parent == tree.parent[currentNode]
       IN  /\ ~tree.randomNode[parent]
           /\ Len(tree.children[parent]) >= 2
           /\ \A c \in Range(tree.children[parent]) : tree.visits[c] >= 1
           /\ \E c \in Range(tree.children[parent]) :
                 tree.visits[c] < tree.visits[currentNode]

DecisionNodes(t) == {n \in DOMAIN t.children : ~t.randomNode[n]}

(* C8: at a node that is not a chance node, as long as some child has no   *)
(* visit, no child has more than one.                                      *)
C8_UnvisitedFirst ==
    \A n \in DecisionNodes(tree) :
        (\E c \in Range(tree.children[n]) : tree.visits[c] = 0)
            => \A c \in Range(tree.children[n]) : tree.visits[c] <= 1

(* After a completed simulation a decision node visited at least twice has *)
(* a child with one visit and a child with none. *)
C8_Witness ==
    /\ SimulationCompleted
    /\ \E n \in DecisionNodes(tree) :
          /\ tree.visits[n] >= 2
          /\ \E c \in Range(tree.children[n]) : tree.visits[c] = 0
          /\ \E c \in Range(tree.children[n]) : tree.visits[c] = 1

ChanceNodes(t) ==
    {n \in DOMAIN t.children : t.randomNode[n] /\ Len(t.children[n]) > 0}

(* The children nextMove can return at node n. *)
NextMoveResults(t, n, g) ==
    {NextMove(t, n, g, draws) : draws \in NextMoveDraws(t, n)}

(* C9: at a chance node every child can be the result of nextMove,         *)
(* whatever the visit counts and tallies of the children are.              *)
C9_ChanceNodeAnyChild ==
    \A n \in ChanceNodes(tree) :
        NextMoveResults(tree, n, objects[ThisGame]) = Range(tree.children[n])

(* A chance node has a child visited more than once while another child    *)
(* has no visit. *)
C9_Witness ==
    \E n \in ChanceNodes(tree) :
        /\ \E c \in Range(tree.children[n]) : tree.visits[c] >= 2
        /\ \E c \in Range(tree.children[n]) : tree.visits[c] = 0

RECURSIVE PositionFrom(_, _, _, _)
(* g after the moves of the nodes n[1..k], k = i..Len(n), in order. *)
PositionFrom(t, g, n, i) ==
    IF i > Len(n) THEN g
    ELSE PositionFrom(t, PerformMove(g, t.move[SubSeq(n, 1, i)]), n, i + 1)

(* The caller's position with the moves on the path to node n played. *)
PositionAt(t, n) == PositionFrom(t, objects[ThisGame], n, 2)

(* The children of an expanded node never change again. *)
ChildrenKept ==
    \A n \in DOMAIN tree.children :
        /\ n \in DOMAIN tree'.children
        /\ tree'.children[n] = tree.children[n]
        /\ tree'.randomNode[n] = tree.randomNode[n]
        /\ \A c \in Range(tree.children[n]) :
              /\ tree'.move[c] = tree.move[c]
              /\ tree'.parent[c] = tree.parent[c]
              /\ tree'.visits[c] >= tree.visits[c]

(* An expanded node has asked for the moves once, an unexpanded node not   *)
(* at all; its children are the listed moves in list order, and expanding  *)
(* it again changes nothing.                                               *)
ExpandedOnce ==
    \A n \in Nodes(tree) :
        IF IsExpanded(tree, n)
        THEN /\ tree.queries[n] = 1
             /\ [i \in DOMAIN tree.children[n] |-> tree.move[tree.children[n][i]]]
                    = GetPossibleMoves(PositionAt(tree, n)).array
             /\ \A i \in DOMAIN tree.children[n] :
                   tree.parent[tree.children[n][i]] = n
             /\ \A i, j \in DOMAIN tree.children[n] :
                   i # j => tree.children[n][i] # tree.children[n][j]
             /\ \A g \in InitialGames : GetChildren(tree, n, g) = tree
        ELSE tree.queries[n] = 0

(* C10: expansion happens once per node and is permanent: the first        *)
(* expansion asks getPossibleMoves once and makes one child per listed     *)
(* move in list order, a later expansion returns the same list without     *)
(* asking again, and no step adds, removes or reorders a node's children.  *)
C10_ExpansionOnceAndPermanent ==
    []ExpandedOnce /\ [][ChildrenKept]_vars

(* A node with several children has been expanded in one simulation and    *)
(* walked through again in a later one. *)
C10_Witness ==
    \E n \in DOMAIN tree.children :
        /\ n # Root
        /\ Len(tree.children[n]) >= 2
        /\ tree.visits[n] >= 2
        /\ \A c \in Range(tree.children[n]) : tree.visits[c] >= 1

(* The legal moves of the position the caller gave to the constructor. *)
RootMoves == GetPossibleMoves(objects[ThisGame]).array

(* selectMove has ended, by a return or by a throw. *)
SelectMoveEnded == ret.op = "selectMove"

(* C11: from a position with exactly one legal move, a selectMove with a   *)
(* round count of at least 1 returns that move.                            *)
C11_ForcedChoice ==
    (SelectMoveEnded /\ rounds >= 1 /\ Len(RootMoves) = 1) =>
        /\ ret.status = "ok"
        /\ ret.value = RootMoves[1]

(* selectMove has ended after several simulations from a position with one *)
(* legal move. *)
C11_Witness ==
    /\ SelectMoveEnded
    /\ rounds >= 2
    /\ Len(RootMoves) = 1
    /\ tree.visits[Root] >= 2

(* C14 as stated: for the two-cell game selectMove always returns move 1.  *)
C14_TwoCellAlwaysSecond ==
    (SelectMoveEnded /\ objects[ThisGame] = TwoCellGame) =>
        /\ ret.status = "ok"
        /\ ret.value = 1

(* C14 amended: for the two-cell game selectMove returns move 1 when at     *)
(* least three simulations have run on the tree; after none or two it       *)
(* returns move 0, and after one the move that simulation tried.            *)
C14_TwoCellSecondAfterThree ==
    (SelectMoveEnded /\ objects[ThisGame] = TwoCellGame) =>
        /\ ret.status = "ok"
        /\ tree.visits[Root] >= 3 => ret.value = 1
        /\ tree.visits[Root] \in {0, 2} => ret.value = 0
        /\ tree.visits[Root] = 1 =>
              \E c \in Range(RootChildren) :
                  tree.visits[c] = 1 /\ ret.value = tree.move[c]

(* selectMove has returned move 1 for the two-cell game after the child of *)
(* move 0 was tried and lost. *)
C14_Witness ==
    /\ SelectMoveReturned
    /\ objects[ThisGame] = TwoCellGame
    /\ tree.visits[Root] >= 3
    /\ ret.value = 1
    /\ \E c \in Range(RootChildren) :
          tree.move[c] = 0 /\ Tally(tree, c, "1") >= 1

(* C15: selectMove throws exactly when the root position has no legal      *)
(* move; it throws after its loop has run max(rounds, 0) simulations, and  *)
(* it returns no move.                                                     *)
C15_ThrowsWithoutMoves ==
    SelectMoveEnded =>
        /\ ret.status = "throw" <=> RootMoves = << >>
        /\ ret.status = "throw" =>
              /\ ret.value = NullMove
              /\ call.i = Max(rounds, 0)
              /\ tree.visits[Root] = simsRun
              /\ IsExpanded(tree, Root) /\ RootChildren = << >>

(* selectMove has thrown after running several simulations from a position *)
(* without legal moves. *)
C15_Witness ==
    /\ SelectMoveEnded
    /\ ret.status = "throw"
    /\ rounds >= 2
    /\ tree.visits[Root] >= 2

(* C16 as stated: with a zero or negative round count, or from a position  *)
(* without legal moves, the search ends with a result that means 'no move  *)
(* available' (null): it neither throws nor returns an ordinary move.      *)
C16_MisuseGivesNoMove ==
    (ret.op \in {"selectMove", "getBestMove"}
     /\ (rounds <= 0 \/ RootMoves = << >>)) =>
        /\ ret.status = "ok"
        /\ ret.value = NullMove

(* C16 amended: from a position without legal moves selectMove throws;     *)
(* with a zero or negative round count it runs no simulation and returns   *)
(* an ordinary move, that of the first most-visited root child, which is   *)
(* the first legal move when the tree has no simulation; getBestMove       *)
(* returns null exactly when the root is not expanded or has no children.  *)
C16_MisuseThrowsOrReturnsFirst ==
    /\ (SelectMoveEnded /\ RootMoves = << >>) => ret.status = "throw"
    /\ (SelectMoveEnded /\ rounds <= 0 /\ RootMoves # << >>) =>
          /\ ret.status = "ok"
          /\ call.i = 0
          /\ ret.value \in Range(RootMoves)
          /\ tree.visits[Root] = 0 => ret.value = RootMoves[1]
          /\ \E c \in Range(RootChildren) :
                /\ ret.value = tree.move[c]
                /\ \A d \in Range(RootChildren) :
                      tree.visits[d] <= tree.visits[c]
    /\ ret.op = "getBestMove" =>
          /\ ret.status = "ok"
          /\ ret.value = NullMove
                <=> (~IsExpanded(tree, Root) \/ RootChildren = << >>)

(* selectMove has returned an ordinary move on an engine configured with a *)
(* zero or negative round count, from a position with several moves. *)
C16_Witness ==
    /\ SelectMoveReturned
    /\ rounds <= 0
    /\ Len(RootMoves) >= 2
    /\ ret.value # NullMove

(* A step of a read operation (getStats, getMoveStats, getTreeInfo,        *)
(* getBestMove, getSimulationCount) or of the caller writing to a tally    *)
(* object one of them returned. *)
ReadStep == pc = "idle" /\ pc' = "idle"

(* C17 as stated: no read operation, and no write to a returned tally      *)
(* object, changes any node's visits, tally, chance flag or child list, or *)
(* whether the root is expanded.                                           *)
C17_ReadOperationsChangeNothing ==
    [][ReadStep => tree' = tree]_vars

(* Every node keeps its visits, tally, parent and move, and every expanded *)
(* node its chance flag and child list. *)
NodesKept ==
    \A n \in Nodes(tree) :
        /\ n \in Nodes(tree')
        /\ tree'.visits[n] = tree.visits[n]
        /\ tree'.wins[n] = tree.wins[n]
        /\ tree'.parent[n] = tree.parent[n]
        /\ tree'.move[n] = tree.move[n]
        /\ IsExpanded(tree, n) =>
              /\ IsExpanded(tree', n)
              /\ tree'.children[n] = tree.children[n]
              /\ tree'.randomNode[n] = tree.randomNode[n]

(* The root has been expanded: its children are new nodes without visits   *)
(* or tallies, one per legal move of the caller's position, and no other   *)
(* node has been expanded or made. *)
RootExpanded ==
    /\ IsExpanded(tree', Root)
    /\ DOMAIN tree'.children = DOMAIN tree.children \cup {Root}
    /\ Nodes(tree') = Nodes(tree) \cup Range(tree'.children[Root])
    /\ Len(tree'.children[Root]) = Len(RootMoves)
    /\ \A i \in DOMAIN tree'.children[Root] :
          LET c == tree'.children[Root][i]
          IN  /\ c \notin Nodes(tree)
              /\ tree'.visits[c] = 0
              /\ tree'.wins[c] = EmptyTally
              /\ tree'.move[c] = RootMoves[i]

(* C17 amended: getMoveStats, getTreeInfo, getBestMove, getSimulationCount *)
(* and a write to a returned tally object change nothing of the tree;      *)
(* getStats changes no existing node's visits or tally and no expanded     *)
(* node's chance flag or child list, but it expands the root when the root *)
(* is not expanded yet.                                                    *)
C17_ReadOperationsExpandAtMost ==
    [][ReadStep =>
          IF ret'.op = "getStats" /\ ~IsExpanded(tree, Root)
          THEN NodesKept /\ RootExpanded
          ELSE tree' = tree]_vars

(* getStats has returned on an engine that has run no simulation, though   *)
(* configured to run some: the root's children were made by getStats. *)
C17_Witness ==
    /\ ret.op = "getStats"
    /\ rounds >= 1
    /\ simsRun = 0
    /\ IsExpanded(tree, Root)
    /\ Len(RootChildren) >= 2

(* The root children with at least one visit. *)
VisitedRootChildren ==
    IF IsExpanded(tree, Root)
    THEN {c \in Range(RootChildren) : tree.visits[c] > 0}
    ELSE {}

(* C18 as stated: getStats and getMoveStats each return one entry per      *)
(* legal move of the root position, with the visits and the tally of that  *)
(* move's child.                                                           *)
C18_StatsReportEveryChild ==
    ret.op \in {"getStats", "getMoveStats"} =>
        /\ ret.status = "ok"
        /\ Len(ret.value) = Len(RootMoves)
        /\ \A m \in Range(RootMoves) :
              \E i \in DOMAIN ret.value : \E c \in Range(RootChildren) :
                  /\ tree.move[c] = m
                  /\ ret.value[i].move = m
                  /\ ret.value[i].visits = tree.visits[c]
                  /\ ret.value[i].wins = tree.wins[c]

(* C18 amended: getStats returns one entry per legal move of the root      *)
(* position, in move order, with the visits and the tally of that move's   *)
(* child; getMoveStats returns one entry per root child that has at least  *)
(* one visit (none when the root is not expanded), in descending order of  *)
(* visits, with the child's visits, tally and the win rate                 *)
(* wins[current player] / visits (here rounded down to a millionth).       *)
C18_StatsReportChildren ==
    /\ ret.op = "getStats" =>
          /\ ret.status = "ok"
          /\ Len(ret.value) = Len(RootMoves)
          /\ \A i \in DOMAIN ret.value :
                /\ ret.value[i].move = RootMoves[i]
                /\ tree.move[RootChildren[i]] = RootMoves[i]
                /\ ret.value[i].visits = tree.visits[RootChildren[i]]
                /\ ret.value[i].wins = tree.wins[RootChildren[i]]
    /\ ret.op = "getMoveStats" =>
          /\ ret.status = "ok"
          /\ Len(ret.value) = Cardinality(VisitedRootChildren)
          /\ \A c \in VisitedRootChildren : \E i \in DOMAIN ret.value :
                LET e == ret.value[i]
                    w == Tally(tree, c, String(GetCurrentPlayer(objects[ThisGame])))
                IN  /\ e.move = tree.move[c]
                    /\ e.visits = tree.visits[c]
                    /\ e.wins = tree.wins[c]
                    /\ e.visits * e.winRate <= 1000000 * w
                    /\ 1000000 * w < e.visits * (e.winRate + 1)
          /\ \A i, j \in DOMAIN ret.value :
                i < j => ret.value[i].visits >= ret.value[j].visits

(* getMoveStats has returned fewer entries than the root has children, and *)
(* its order is not the children's. *)
C18_Witness ==
    /\ ret.op = "getMoveStats"
    /\ Len(ret.value) >= 2
    /\ Len(ret.value) < Len(RootMoves)
    /\ ret.value[1].visits > ret.value[2].visits
    /\ \E i, j \in DOMAIN RootChildren :
          /\ i < j
          /\ tree.move[RootChildren[j]] = ret.value[1].move
          /\ tree.move[RootChildren[i]] = ret.value[2].move

(* C19: a simulation's walk goes on from a node exactly when the simulated *)
(* position at that node has legal moves, and then it steps to one of the  *)
(* node's children; it stops at a node whose position has none, whose      *)
(* child list is empty, and the winner is read from the simulated position *)
(* at that node.                                                           *)
C19_WalkStopsAtTerminal ==
    [][pc = "walk" =>
          LET position == objects[simGame]
              moves == GetPossibleMoves(position).array
          IN  /\ position = PositionAt(tree, currentNode)
              /\ Last(path) = currentNode
              /\ IF pc' = "walk"
                 THEN /\ moves # << >>
                      /\ Len(tree'.children[currentNode]) = Len(moves)
                      /\ currentNode' \in Range(tree'.children[currentNode])
                      /\ path' = Append(path, currentNode')
                 ELSE /\ moves = << >>
                      /\ tree'.children[currentNode] = << >>
                      /\ currentNode' = currentNode
                      /\ path' = path
                      /\ winner' = GetWinner(position)]_vars

(* A walk has stopped at a node without children after passing a node      *)
(* below the root that has several. *)
C19_Witness ==
    /\ pc = "loop"
    /\ Len(path) >= 3
    /\ tree.children[currentNode] = << >>
    /\ \E n \in Range(path) \ {Root, currentNode} : Len(tree.children[n]) >= 2

(* After a simulation every node on its path has one visit more than       *)
(* before it, every other node as many as before, and no node is on the    *)
(* path twice. *)
VisitedOncePerSimulation ==
    SimulationCompleted =>
        /\ \A n \in Nodes(tree) :
              tree.visits[n] = PreVisits(n) + (IF n \in Range(path) THEN 1 ELSE 0)
        /\ \A i, j \in DOMAIN path : i # j => path[i] # path[j]

(* No step lowers a node's visit count or raises it by more than one. *)
VisitsNeverDecrease ==
    \A n \in Nodes(tree) :
        /\ n \in Nodes(tree')
        /\ tree'.visits[n] >= tree.visits[n]
        /\ tree'.visits[n] <= tree.visits[n] + 1

(* C20: a node's visit count never decreases, and a simulation adds        *)
(* exactly one to it if the node is on the simulation's path and nothing   *)
(* otherwise.                                                              *)
C20_VisitsCountSimulations ==
    []VisitedOncePerSimulation /\ [][VisitsNeverDecrease]_vars

(* A simulation has ended whose path holds a node below the root that had  *)
(* been visited before, while a visited node lies off the path. *)
C20_Witness ==
    /\ SimulationCompleted
    /\ \E n \in Range(path) \ {Root} : tree.visits[n] >= 2
    /\ \E n \in Nodes(tree) \ Range(path) : tree.visits[n] >= 1

(* C21 as stated: between public operations a node's child list is         *)
(* populated if and only if the node has at least one visit.               *)
C21_ExpandedIffVisited ==
    pc = "idle" =>
        \A n \in Nodes(tree) : IsExpanded(tree, n) <=> tree.visits[n] >= 1

(* C21 amended: between public operations every node with a visit has a    *)
(* populated child list, and every node with a populated child list has a  *)
(* visit, except the root, which selectMove and getStats expand without a  *)
(* visit when no simulation has run; during a simulation the one visited   *)
(* node whose child list may still be unset is the node the walk has just  *)
(* reached.                                                                *)
C21_ExpandedIffVisitedBelowRoot ==
    \A n \in Nodes(tree) :
        /\ (IsExpanded(tree, n) /\ n # Root) => tree.visits[n] >= 1
        /\ (tree.visits[n] >= 1 /\ ~IsExpanded(tree, n)) =>
              (pc = "walk" /\ n = currentNode)
        /\ (IsExpanded(tree, n) /\ tree.visits[n] = 0) =>
              (n = Root /\ simsRun = 0)

(* The root has been expanded on an engine without any simulation, and no  *)
(* call is in progress. *)
C21_Witness ==
    /\ pc = "idle"
    /\ IsExpanded(tree, Root)
    /\ tree.visits[Root] = 0
    /\ Len(RootChildren) >= 2
    /\ \A c \in Range(RootChildren) : ~IsExpanded(tree, c)

(* C22: every node below the root has at most as many visits as its        *)
(* parent, in every state, also in the middle of a simulation; so a node   *)
(* with a visit, the only kind whose score takes ln(parent.visits), has a  *)
(* parent with at least one visit.                                         *)
C22_ChildVisitsAtMostParent ==
    \A n \in Nodes(tree) \ {Root} :
        /\ tree.visits[n] <= tree.visits[tree.parent[n]]
        /\ tree.visits[n] >= 1 => tree.visits[tree.parent[n]] >= 1

(* In the middle of a simulation the walk has just counted the first visit *)
(* of a node two levels below the root. *)
C22_Witness ==
    /\ pc = "walk"
    /\ Len(path) >= 3
    /\ tree.visits[currentNode] = 1
    /\ tree.visits[tree.parent[currentNode]] = 1

(* An expanded node is flagged exactly when the moves of its position are  *)
(* a RandomSelection, and its children are the outcomes of the selection   *)
(* (or the moves of the plain list), one node each, in order; a node that  *)
(* is not expanded is not flagged. *)
ChanceFlagFromExpansion ==
    \A n \in Nodes(tree) :
        IF IsExpanded(tree, n)
        THEN LET movesResult == GetPossibleMoves(PositionAt(tree, n))
             IN  /\ tree.randomNode[n] = movesResult.random
                 /\ Len(tree.children[n]) = Len(movesResult.array)
                 /\ \A i \in DOMAIN tree.children[n] :
                       tree.move[tree.children[n][i]] = movesResult.array[i]
                 /\ Cardinality(Range(tree.children[n])) = Len(movesResult.array)
        ELSE ~tree.randomNode[n]

(* Expanding the root of a new engine for the dice game with two dice      *)
(* chosen: 36 children, one per outcome of TwoDice, repeated sums          *)
(* included. *)
TwoDiceFlattened ==
    (~IsExpanded(tree, Root) /\ objects[ThisGame].kind = "dice") =>
        LET t == GetChildren(tree, Root, DiceChosen(2))
        IN  /\ t.randomNode[Root]
            /\ Len(t.children[Root]) = 36
            /\ Cardinality(Range(t.children[Root])) = 36
            /\ Cardinality({c \in Range(t.children[Root]) : t.move[c] = 7}) = 6
            /\ [i \in 1..36 |-> t.move[t.children[Root][i]]] = TwoDice

(* The flag of an expanded node does not change, and a walk that reaches a *)
(* flagged node without children ends there. *)
ChanceFlagKept ==
    /\ \A n \in DOMAIN tree.children : tree'.randomNode[n] = tree.randomNode[n]
    /\ (pc = "walk" /\ tree'.randomNode[currentNode]
        /\ tree'.children[currentNode] = << >>)
          => (pc' = "loop" /\ path' = path /\ call'.i = call.i + 1)

(* C23: a node is a chance node exactly when the moves obtained at its     *)
(* expansion are a RandomSelection; the flag is set at expansion and never *)
(* changes; the children are the flattened outcomes, repeated outcomes as  *)
(* separate children; an empty RandomSelection gives a flagged node        *)
(* without children, where the simulation ends.                            *)
C23_ChanceFlagAtExpansion ==
    /\ []ChanceFlagFromExpansion
    /\ []TwoDiceFlattened
    /\ [][ChanceFlagKept]_vars

(* Two simulations have ended at a flagged root whose RandomSelection is   *)
(* empty. *)
C23_Witness ==
    /\ SimulationCompleted
    /\ tree.randomNode[Root]
    /\ IsExpanded(tree, Root)
    /\ RootChildren = << >>
    /\ tree.visits[Root] >= 2
    /\ path = <<Root>>

(* nextMove throws on the nodes without children and on no other node. *)
NextMoveThrowsWithoutChildren ==
    \A n \in DOMAIN tree.children :
        NextMoveThrows(tree, n, PositionAt(tree, n)) <=> tree.children[n] = << >>

(* The walk calls nextMove only on a node with children. *)
NextMoveOnlyWithChildren ==
    (pc = "walk" /\ pc' # "loop") =>
        /\ tree'.children[currentNode] # << >>
        /\ pc' = "walk"
        /\ currentNode' \in Range(tree'.children[currentNode])

(* C24: nextMove on a node without children throws, and nothing in the     *)
(* engine catches the error; within a simulation it is never thrown,       *)
(* because the walk calls nextMove only on a node whose child list is not  *)
(* empty.                                                                  *)
C24_NextMoveErrorNeverRaised ==
    /\ [](NextMoveThrowsWithoutChildren /\ ret.status # "nextMoveError")
    /\ [][NextMoveOnlyWithChildren]_vars

(* Simulations have ended at a node without children, on which nextMove    *)
(* would throw, and the public call has returned normally. *)
C24_Witness ==
    /\ pc = "idle"
    /\ ret.op = "runSimulations"
    /\ ret.status = "ok"
    /\ simsRun >= 2
    /\ Len(path) >= 2
    /\ NextMoveThrows(tree, Last(path), PositionAt(tree, Last(path)))

(* C25: runSimulations(n) runs max(n, 0) simulations, and outside a        *)
(* simulation the root's visit count, which getSimulationCount returns, is *)
(* the number of simulations run since construction, however they were     *)
(* split over runSimulations and selectMove calls.                         *)
C25_BatchesAccumulate ==
    /\ pc # "walk" => tree.visits[Root] = simsRun
    /\ (pc = "idle" /\ ret.op = "runSimulations") =>
          /\ ret.status = "ok"
          /\ call.op = "runSimulations"
          /\ call.i = Max(call.n, 0)
    /\ ret.op = "getSimulationCount" =>
          /\ ret.status = "ok"
          /\ ret.value = simsRun

(* getSimulationCount has returned 3 or more on an engine configured with  *)
(* no round: the simulations come from at least two batches. *)
C25_Witness ==
    /\ ret.op = "getSimulationCount"
    /\ rounds <= 0
    /\ ret.value >= 3

(* The step of getBestMove runs no simulation and changes no node. *)
GetBestMoveReads ==
    (pc = "idle" /\ pc' = "idle" /\ ret'.op = "getBestMove") =>
        /\ tree' = tree
        /\ simsRun' = simsRun
        /\ objects' = objects

(* What getBestMove has returned: null for a root that is not expanded or  *)
(* has no children, otherwise the move of the first most visited root      *)
(* child, which selectMove returns from the same tree. *)
GetBestMoveResult ==
    ret.op = "getBestMove" =>
        /\ ret.status = "ok"
        /\ IF ~IsExpanded(tree, Root) \/ RootChildren = << >>
           THEN ret.value = NullMove
           ELSE /\ \E i \in DOMAIN RootChildren :
                     /\ ret.value = tree.move[RootChildren[i]]
                     /\ \A j \in DOMAIN RootChildren :
                           /\ tree.visits[RootChildren[j]]
                                 <= tree.visits[RootChildren[i]]
                           /\ j < i => tree.visits[RootChildren[j]]
                                         < tree.visits[RootChildren[i]]
                /\ SelectMoveResult(tree, RootChildren)
                      = [op |-> "selectMove", status |-> "ok", value |-> ret.value]

(* C26: getBestMove runs no simulation and expands nothing; it returns     *)
(* null when the root is not expanded or has no children, and otherwise    *)
(* the move of the first root child with the highest visit count, the move *)
(* selectMove would return from that tree without further simulations.     *)
C26_GetBestMoveFirstMostVisited ==
    []GetBestMoveResult /\ [][GetBestMoveReads]_vars

(* getBestMove has returned the move of the first of two root children     *)
(* that share the highest, non-zero visit count. *)
C26_Witness ==
    /\ ret.op = "getBestMove"
    /\ ret.value # NullMove
    /\ \E i, j \in DOMAIN RootChildren :
          /\ i < j
          /\ ret.value = tree.move[RootChildren[i]]
          /\ tree.visits[RootChildren[i]] = tree.visits[RootChildren[j]]
          /\ tree.visits[RootChildren[i]] >= 1

(* The sum of the children's tallies under `key`. *)
ChildTallies(t, n, key) ==
    SumSeq([i \in DOMAIN t.children[n] |-> Tally(t, t.children[n][i], key)])

(* C28: outside a simulation every node with children has as many visits   *)
(* as its children together, and under every key its tally is the sum of   *)
(* its children's tallies.                                                 *)
C28_NodeEqualsSumOfChildren ==
    pc # "walk" =>
        \A n \in DOMAIN tree.children :
            tree.children[n] # << >> =>
                /\ tree.visits[n] = SumSeq(ChildVisits(tree, n))
                /\ \A key \in Keys :
                      Tally(tree, n, key) = ChildTallies(tree, n, key)

(* After a simulation a node below the root has several visited children   *)
(* and a tally. *)
C28_Witness ==
    /\ SimulationCompleted
    /\ \E n \in DOMAIN tree.children :
          /\ n # Root
          /\ tree.visits[n] >= 2
          /\ TotalWins(tree, n) >= 1
          /\ \E c, d \in Range(tree.children[n]) :
                c # d /\ tree.visits[c] >= 1 /\ tree.visits[d] >= 1

(* C29: in every state every tally of every node is between 0 and the      *)
(* node's visit count, and the node's tallies together are at most its     *)
(* visit count.                                                            *)
C29_TalliesWithinVisits ==
    \A n \in Nodes(tree) :
        /\ \A key \in DOMAIN tree.wins[n] :
              tree.wins[n][key] >= 0 /\ tree.wins[n][key] <= tree.visits[n]
        /\ TotalWins(tree, n) <= tree.visits[n]
        /\ Draws(tree, n) >= 0

(* A node holds wins of both players and a draw. *)
C29_Witness ==
    \E n \in Nodes(tree) :
        /\ Cardinality(DOMAIN tree.wins[n]) >= 2
        /\ Draws(tree, n) >= 1
        /\ pc # "walk"

(* During a walk the simulated position is the caller's position with the  *)
(* moves of the path played in order. *)
PositionFollowsPath ==
    pc = "walk" =>
        /\ simGame = CloneObj
        /\ Last(path) = currentNode
        /\ objects[simGame] = PositionAt(tree, currentNode)

(* A step of the walk plays the move of the node it reaches, which is a     *)
(* legal move of the simulated position before the step. *)
PerformedMoveIsLegal ==
    (pc = "walk" /\ pc' = "walk") =>
        LET move == tree'.move[currentNode']
        IN  /\ move \in Range(GetPossibleMoves(objects[simGame]).array)
            /\ objects'[simGame] = PerformMove(objects[simGame], move)
            /\ tree'.parent[currentNode'] = currentNode

(* C30: with deterministic game operations and a caller that leaves the    *)
(* game alone, the simulated position on arrival at a node is the caller's *)
(* position with the moves on the path from the root applied in order, and *)
(* every move passed to performMove is one of getPossibleMoves of the      *)
(* position it is applied to.                                              *)
C30_PathConsistency ==
    []PositionFollowsPath /\ [][PerformedMoveIsLegal]_vars

(* A walk has arrived, two levels below the root, at a node that an        *)
(* earlier simulation expanded. *)
C30_Witness ==
    /\ pc = "walk"
    /\ Len(path) >= 3
    /\ tree.visits[currentNode] >= 2
    /\ IsExpanded(tree, currentNode)

RECURSIVE BatchPlan(_, _, _)
(* The batches the loop of doAIMove asks for from `completed` on. *)
BatchPlan(batchSize, simulations, completed) ==
    IF BatchLoopContinues(completed, simulations)
    THEN LET toRun == ToRun(batchSize, simulations - completed)
         IN  <<toRun>> \o BatchPlan(batchSize, simulations, completed + toRun)
    ELSE << >>

(* Every batch run has at least one simulation and at most batchSize, and  *)
(* there are no more batches than simulations. *)
BatchesBounded ==
    ui.showThinking =>
        /\ \A i \in DOMAIN ui.batches :
              ui.batches[i] >= 1 /\ ui.batches[i] <= ui.batchSize
        /\ Len(ui.batches) <= ui.simulations
        /\ ui.batches = SubSeq(BatchPlan(ui.batchSize, ui.simulations, 0),
                               1, Len(ui.batches))

(* When doAIMove has ended, the batches add up to the selected count. *)
BatchesAddUp ==
    (ui.showThinking /\ ui.pc \in {"ready", "scheduled"}) =>
        SumSeq(ui.batches) = ui.simulations

(* After every batch the engine has counted what the page has counted. *)
CountIsCompleted ==
    (ui.showThinking /\ ui.pc \in {"yield", "while"}) =>
        /\ tree.visits[Root] = ui.completed
        /\ ui.completed = SumSeq(ui.batches)
        /\ simsRun = ui.completed

(* A plan of batches of 1 to batchSize simulations that add up. *)
PlanAddsUp(plan, batchSize, simulations) ==
    /\ SumSeq(plan) = simulations
    /\ \A i \in DOMAIN plan : plan[i] >= 1 /\ plan[i] <= batchSize

(* The loop's arithmetic alone, for selected counts beyond the ones the    *)
(* page is run with, among them counts at which the cap applies, and for   *)
(* the batch size of the four-in-a-row page.                               *)
LargePlansAddUp ==
    /\ \A s \in {20, 40, 1000, 1001, 1049, 5000} :
          PlanAddsUp(BatchPlan(BatchSize(s), s, 0), BatchSize(s), s)
    /\ \A s \in {15, 16, 31, 1500, 1501, 5000} :
          PlanAddsUp(BatchPlan(BatchSizeFourInARow(s), s, 0),
                     BatchSizeFourInARow(s), s)

(* A doAIMove that is due and is not put off by a New Game begins, and a   *)
(* doAIMove that has begun comes to its end.                               *)
ThinkingEnds ==
    /\ (ui.pc = "scheduled" /\ SearchFits) ~> (SearchInProgress \/ ~SearchFits)
    /\ SearchInProgress ~> ~SearchInProgress

(* C27: in show-thinking mode doAIMove runs the search in batches of at    *)
(* least 1 and at most batchSize simulations, the batch sizes add up to    *)
(* the selected simulation count, the loop ends after finitely many        *)
(* batches, and after every batch the engine's simulation count equals the *)
(* page's completed counter.                                               *)
C27_BoundedBatches ==
    /\ []BatchesBounded
    /\ []BatchesAddUp
    /\ []CountIsCompleted
    /\ []LargePlansAddUp
    /\ ThinkingEnds

(* A show-thinking doAIMove has ended after full batches of two and a last *)
(* batch of one. *)
C27_Witness ==
    /\ ui.showThinking
    /\ ui.pc = "ready"
    /\ ui.batchSize = 2
    /\ Len(ui.batches) >= 3
    /\ ui.batches[1] = 2
    /\ Last(ui.batches) = 1

(* selectMove or getBestMove has just returned a move. *)
MoveReturned ==
    /\ ret.op \in {"selectMove", "getBestMove"}
    /\ ret.status = "ok"
    /\ ret.value # NullMove

(* The legal moves of a position. *)
LegalMoves(g) == Range(GetPossibleMoves(g).array)

(* C31 as stated: the move returned by selectMove, and by getBestMove when *)
(* it is not null, is a legal move of the caller's game at the time of the *)
(* call, however the caller's performMove calls are interleaved with the   *)
(* calls on the engine.                                                    *)
C31_ReturnedMoveLegalNow ==
    MoveReturned => ret.value \in LegalMoves(objects[ThisGame])

(* C31: the move returned by selectMove, and by getBestMove when it is not *)
(* null, is a legal move of the caller's game as it was when the root was  *)
(* first expanded; it is a legal move at the time of the call when the     *)
(* caller has played no move since then.                                   *)
C31_ReturnedMoveLegalAtExpansion ==
    MoveReturned =>
        /\ rootGame # NoGame
        /\ ret.value \in LegalMoves(rootGame)
        /\ rootGame = objects[ThisGame] =>
              ret.value \in LegalMoves(objects[ThisGame])

(* selectMove returns a move after the caller has played on the game whose *)
(* root the engine had expanded. *)
C31_Witness ==
    /\ MoveReturned
    /\ ret.op = "selectMove"
    /\ simsRun >= 2
    /\ rootGame # objects[ThisGame]

(* A simulation that has begun comes to its end. *)
SimulationEnds == (pc = "walk") ~> (pc # "walk")

(* A selectMove that has been entered returns a move or throws. *)
SelectMoveEnds ==
    (pc = "loop" /\ call.op = "selectMove") ~>
        (pc = "idle" /\ ret.op = "selectMove" /\ ret.status \in {"ok", "throw"})

(* selectMove ends after `rounds` simulations, none for a count below 1,   *)
(* and its loop never runs more.                                           *)
SelectMoveRunsRounds ==
    call.op = "selectMove" =>
        /\ call.i <= Max(rounds, 0)
        /\ (pc = "idle" => call.i = Max(rounds, 0))

(* A simulation never walks further than the game is long: a board game   *)
(* lasts at most one move per cell, the dice game two moves.               *)
WalkBounded ==
    pc = "walk" => Len(path) <= 1 + Len(objects[ThisGame].board) + 2

(* C32: for a game in which every sequence of legal moves ends after       *)
(* finitely many moves at a position with no legal moves, every simulation *)
(* terminates, and selectMove returns or throws after exactly `rounds`     *)
(* simulations.                                                            *)
C32_SelectMoveTerminates ==
    /\ SimulationEnds
    /\ SelectMoveEnds
    /\ []SelectMoveRunsRounds
    /\ []WalkBounded

(* selectMove has returned after its third simulation. *)
C32_Witness ==
    /\ SelectMoveEnded
    /\ rounds = MaxRounds
    /\ call.i = MaxRounds

(* doAIMove performs the move its search has found. *)
AppliesBestMove == DoAIMoveEnd /\ BestMove(tree) # NullMove

(* The move of a search goes onto the object the engine was constructed    *)
(* on, which `game` then still refers to.                                  *)
AppliedToSearchedObject == AppliesBestMove => ui.game = ThisGame

(* The move of a search goes onto the position the search has expanded its *)
(* root from.                                                              *)
AppliedToSearchedPosition == AppliesBestMove => objects[ui.game] = rootGame

(* The move of a search goes onto an empty cell. *)
AppliedToEmptyCell ==
    AppliesBestMove => objects[ui.game].board[BestMove(tree) + 1] = NoPlayer

(* C33: in the web UI the move an AI search finally applies is applied to  *)
(* the same game object and the same position the search was run on, under *)
(* every interleaving of cell clicks, New Game clicks and the timer        *)
(* callbacks that resume doAIMove between batches; it is never written     *)
(* onto an occupied cell.                                                  *)
C33_AppliedWhereSearched ==
    [][/\ AppliedToSearchedObject
       /\ AppliedToSearchedPosition
       /\ AppliedToEmptyCell]_vars

(* doAIMove awaits its 10 ms timer while a setTimeout(doAIMove, 50) is     *)
(* pending: the callback of that timer, when it runs before the 10 ms      *)
(* timer's, begins a second doAIMove while the first has not returned.     *)
SecondSearchDue == ui.pc = "yield" /\ ui.waiting > 0

(* A click of the player has put a mark on the board. *)
ClickChangesBoard ==
    /\ \E row, col \in 0..2 : HandleCellClick(row, col)
    /\ objects' # objects

(* A doAIMove is scheduled or in progress, its move not yet applied. *)
SearchAhead == ui.pc # "ready" \/ ui.waiting > 0

(* C34: in the web UI at most one AI search (doAIMove) is in progress at   *)
(* any time, and no player click changes the board between the scheduling  *)
(* of an AI search and the application of its move, under every            *)
(* interleaving of cell clicks, New Game clicks and timer callbacks.       *)
C34_OneSearchUndisturbed ==
    /\ [](~SecondSearchDue)
    /\ [][ClickChangesBoard => ~SearchAhead]_vars

====
